---- MODULE Spec2Model ----
(***************************************************************************)
(* Phit: the local-first replication engine.                               *)
(*                                                                         *)
(*   Record Store  src/src/services/storage.ts       (AsyncStorage slots)  *)
(*   Data Service  src/src/services/dataService.ts   lines 1-217           *)
(*   Sync Engine   src/src/services/dataService.ts   lines 219-653         *)
(*                                                                         *)
(* JavaScript is single-threaded; a handler runs until its next `await` of *)
(* an AsyncStorage call, NetInfo.fetch or a Firestore call.  Each action   *)
(* below is one such uninterrupted stretch: it performs the effect of the  *)
(* awaited call and the synchronous code that follows it, up to the next   *)
(* awaited call.  Handlers interleave at these points only.                *)
(*                                                                         *)
(* null is modelled as the empty sequence <<>> and a present value v as    *)
(* <<v>>; objects are records, arrays are sequences.  The Record Store     *)
(* holds the parsed form of what JSON.stringify wrote.                     *)
(***************************************************************************)
EXTENDS Integers, Sequences, FiniteSets, TLC

\* Bounds of the model.
MaxCalls == 1
MaxTime == 3
MaxInits == 2

\* src/src/services/dataService.ts:253
MAX_RETRY_COUNT == 5

VARIABLES
    store,       \* AsyncStorage: one entry per STORAGE_KEYS key
    storageOk,   \* FALSE while AsyncStorage calls throw
    remote,      \* Firestore: document path -> document fields
    configured,  \* isFirebaseEnabled() && db
    authUser,    \* auth.currentUser (its uid), or null
    signIn,      \* the signInToFirebase call in flight and its last response
    now,         \* Date.now(); the clock advances with each Data Service call
    nextId,      \* number of ids generateId has produced
    status,      \* currentSyncStatus
    obs,         \* onStatusChange, and who the last setStatus call notified
    ds,          \* the Data Service call in flight, or the last one returned
    cyc,         \* the performSync invocations, one per trigger
    last,        \* what the handler that returned in the last step returned
    passes,      \* cycles that passed preflight with the watched item queued
    newest,      \* the item queueForSync enqueued last for the watched document
    sched        \* AppState.currentState, syncIntervalId, appStateSubscription

vars == <<store, storageOk, remote, configured, authUser, signIn, now, nextId,
          status, obs, ds, cyc, last, passes, newest, sched>>

Null == <<>>
Some(v) == <<v>>

\* performSync is started by the timer of startPeriodicSync and by syncNow.
CycleSlots == {"timer", "syncNow"}

Uids == {"u1"}
LoadUnits == {"kg"}
TemplateInputs ==
    {[id |-> "t1", name |-> "A"], [id |-> "t1", name |-> "B"], [id |-> "", name |-> "A"]}

STORAGE_KEYS ==
    {"userId", "preferences", "templates", "sessions", "currentSession",
     "syncQueue", "lastSyncTimestamp"}

------------------------------------------------------------------------------
(* Record Store: storage.ts *)

\* A slot that is Unparsable holds a string that JSON.parse rejects (neither
\* null nor a parsed value <<v>>).
Unparsable == <<"not", "JSON">>

\* Whether the try block of getItem throws: AsyncStorage.getItem rejects or
\* JSON.parse throws.
readThrows(s, ok, key) == ~ok \/ s[key] = Unparsable

getItem(s, ok, key) == IF readThrows(s, ok, key) THEN Null ELSE s[key]

\* The store after setItem / removeItem / clearAllData, and the boolean each
\* returns.
setItem(s, ok, key, value) == IF ok THEN [s EXCEPT ![key] = Some(value)] ELSE s

\* setItem returning true from its catch block too.
setItemReturnTrue(ok) == TRUE

setItemReturn(ok) == ok

removeItem(s, ok, key) == IF ok THEN [s EXCEPT ![key] = Null] ELSE s

removeItemReturn(ok) == ok

clearAllData(s, ok) == IF ok THEN [k \in STORAGE_KEYS |-> Null] ELSE s

clearAllDataReturn(ok) == ok

\* The wrapper stamped with the time before the write.
SyncedDataStale(data, t) == [data |-> data, lastModified |-> t - 1, syncedAt |-> Null]

SyncedData(data, t) == [data |-> data, lastModified |-> t, syncedAt |-> Null]

DEFAULT_PREFERENCES == [defaultLoadUnit |-> "lb", autoScrollOnComplete |-> TRUE]

getUserId(s, ok) == getItem(s, ok, "userId")

getPreferences(s, ok, t) ==
    LET data == getItem(s, ok, "preferences")
    IN IF data = Null THEN SyncedData(DEFAULT_PREFERENCES, t) ELSE data[1]

getTemplates(s, ok, t) ==
    LET data == getItem(s, ok, "templates")
    IN IF data = Null THEN SyncedData(<<>>, t) ELSE data[1]

getSessions(s, ok, t) ==
    LET data == getItem(s, ok, "sessions")
    IN IF data = Null THEN SyncedData(<<>>, t) ELSE data[1]

getCurrentSession(s, ok) == getItem(s, ok, "currentSession")

getSyncQueue(s, ok) ==
    LET data == getItem(s, ok, "syncQueue")
    IN IF data = Null THEN <<>> ELSE data[1]

getLastSyncTimestamp(s, ok) ==
    LET data == getItem(s, ok, "lastSyncTimestamp")
    IN IF data = Null THEN 0 ELSE data[1]

setPreferences(s, ok, preferences, t) ==
    setItem(s, ok, "preferences", SyncedData(preferences, t))

setTemplates(s, ok, templates, t) ==
    setItem(s, ok, "templates", SyncedData(templates, t))

setSessions(s, ok, sessions, t) ==
    setItem(s, ok, "sessions", SyncedData(sessions, t))

setCurrentSession(s, ok, session) ==
    IF session = Null THEN removeItem(s, ok, "currentSession")
    ELSE setItem(s, ok, "currentSession", session[1])

setCurrentSessionReturn(ok, session) ==
    IF session = Null THEN removeItemReturn(ok) ELSE setItemReturn(ok)

setSyncQueue(s, ok, queue) == setItem(s, ok, "syncQueue", queue)

setLastSyncTimestamp(s, ok, timestamp) ==
    setItem(s, ok, "lastSyncTimestamp", timestamp)

\* Array.prototype.findIndex on the id field: 0 stands for -1.
FindIndex(list, id) ==
    IF \E i \in 1..Len(list) : list[i].id = id
    THEN CHOOSE i \in 1..Len(list) :
            /\ list[i].id = id
            /\ \A j \in 1..(i - 1) : list[j].id # id
    ELSE 0

\* The array each read-modify-write helper hands to its setter.
addTemplateList(list, template) == Append(list, template)

updateTemplateList(list, template) ==
    [list EXCEPT ![FindIndex(list, template.id)] = template]

deleteTemplateList(list, templateId) ==
    SelectSeq(list, LAMBDA t : t.id # templateId)

addSessionList(list, session) == Append(list, session)

\* updateSession: the session replaces the first one with its id, or is
\* pushed when there is none.
updateSessionList(list, session) ==
    IF FindIndex(list, session.id) = 0 THEN Append(list, session)
    ELSE [list EXCEPT ![FindIndex(list, session.id)] = session]

addToSyncQueueList(queue, item) == Append(queue, item)

removeFromSyncQueueList(queue, itemId) ==
    SelectSeq(queue, LAMBDA item : item.id # itemId)

\* updateSyncQueueItem moving the updated item to the tail of the queue.
updateSyncQueueItemToTail(queue, itemId, retryCount) ==
    SelectSeq(queue, LAMBDA item : item.id # itemId) \o
    <<[queue[FindIndex(queue, itemId)] EXCEPT !.retryCount = retryCount]>>

updateSyncQueueItemList(queue, itemId, retryCount) ==
    [queue EXCEPT ![FindIndex(queue, itemId)].retryCount = retryCount]

------------------------------------------------------------------------------
(* Data Service helpers: dataService.ts 21-45 *)

\* generateId: a fresh token per call (timestamp + random suffix).
generateId(n) == "g" \o ToString(n + 1)

SyncQueueItem(id, collection, documentId, action, data, t) ==
    [id |-> id, collection |-> collection, documentId |-> documentId,
     action |-> action, data |-> data, createdAt |-> t, retryCount |-> 0]


------------------------------------------------------------------------------
(* What the handler that returned in the last step returned; NoReturn when  *)
(* the last step was not a return.                                         *)
(*   who    "ds" or the cycle slot; op the operation                       *)
(*   ret    the value a Data Service call returned, val its payload,       *)
(*          item the queue item it built, enq the queue writes it made,    *)
(*          slot0 / queue0 the current-session slot and the queue slot     *)
(*          when it was called, failed whether a Record Store write of   *)
(*          the call returned false                                        *)
(*   res    the SyncResult of performSync, reason why it skipped ("" when  *)
(*          it did not), snap the queue its upload phase read, outcomes    *)
(*          the result.success of each item of snap, calls the remote     *)
(*          calls it issued, queue0 / lastSync0 the queue slot and the     *)
(*          last-sync slot when it was called, probe what canSync saw      *)
(*          once NetInfo.fetch resolved                                    *)

NoReturn ==
    [who |-> "", op |-> "", ret |-> Null, val |-> Null, item |-> Null, enq |-> 0,
     res |-> Null, reason |-> "", snap |-> <<>>, outcomes |-> <<>>, calls |-> 0,
     queue0 |-> Null, lastSync0 |-> Null, probe |-> Null, slot0 |-> Null,
     failed |-> FALSE]

------------------------------------------------------------------------------
(* Data Service: dataService.ts 47-217.  ds is the call in flight:          *)
(*   op    the operation called                                            *)
(*   pc    the awaited storage call ("idle": no call in flight)            *)
(*   val   the payload (preferences, templateWithId, session, completed)   *)
(*   docId the templateId / userId / workoutId argument                    *)
(*   mode  which templates helper runs (add, update, delete)               *)
(*   buf   the array the pending read-modify-write will store              *)
(*   ts    Date.now() taken when the pending write was built               *)
(*   item  the queue item built by queueForSync                            *)
(*   slot0, queue0  the current-session slot and the queue slot when the   *)
(*         call was made                                                   *)
(*   failed whether a storage write awaited by the call returned false     *)

DsIdle ==
    [op |-> "none", pc |-> "idle", val |-> Null, docId |-> "", mode |-> "",
     buf |-> <<>>, ts |-> 0, item |-> Null, slot0 |-> Null, queue0 |-> Null,
     failed |-> FALSE]

DsStart(op, pc, val, docId, mode) ==
    [DsIdle EXCEPT !.op = op, !.pc = pc, !.val = val, !.docId = docId, !.mode = mode,
                   !.slot0 = store["currentSession"],
                   !.queue0 = store["syncQueue"]]

\* The call goes on to its next awaited storage call.
DsGoOn(d) ==
    /\ ds' = d
    /\ last' = NoReturn

\* The call returns r, having written the queue enq times.
DsReturn(d, r, enq) ==
    /\ ds' = DsIdle
    /\ last' = [NoReturn EXCEPT !.who = "ds", !.op = d.op, !.ret = r,
                                !.val = d.val, !.item = d.item, !.enq = enq,
                                !.slot0 = d.slot0, !.queue0 = d.queue0,
                                !.failed = d.failed]

\* The call has awaited a storage write that returned the boolean written;
\* no caller in the Data Service reads it.
Awaited(d, written) == [d EXCEPT !.failed = @ \/ ~written]

\* queueForSync up to its await of storage.getSyncQueue (inside addToSyncQueue).
queueForSync(d, collection, documentId, action, data) ==
    [d EXCEPT !.item = Some(SyncQueueItem(generateId(nextId), collection,
                                           documentId, action, data, now)),
              !.pc = "qRead"]

\* The session the caller holds: the one startSession("w1") returned to it.
HeldSession ==
    [id |-> "s1", workoutId |-> "w1", userId |-> "local-user", startedAt |-> 1,
     completedAt |-> Null, logs |-> 0]

\* The sessions a caller can pass: the one it holds, the one in the current
\* slot, and that one with a set logged.
SessionInputs ==
    {HeldSession} \cup
    (IF store["currentSession"] = Null THEN {}
     ELSE {store["currentSession"][1],
           [store["currentSession"][1] EXCEPT !.logs = 1]})

\* A call can start while the model has calls left.
CanCall ==
    /\ ds.pc = "idle"
    /\ now <= MaxCalls

savePreferencesCall(preferences) ==
    /\ CanCall
    /\ DsGoOn([DsStart("savePreferences", "prefsWrite", Some(preferences), "", "")
                 EXCEPT !.ts = now])
    /\ UNCHANGED <<store, nextId>>

PrefsWrite ==
    /\ ds.pc = "prefsWrite"
    /\ store' = setPreferences(store, storageOk, ds.val[1], ds.ts)
    /\ DsGoOn([Awaited(ds, setItemReturn(storageOk)) EXCEPT !.pc = "uidRead"])
    /\ UNCHANGED nextId

\* savePreferences queueing under 'local-user' when no user id is stored.
PrefsUidReadLocalUser ==
    /\ ds.pc = "uidRead"
    /\ LET stored == getUserId(store, storageOk)
           userId == IF stored = Null THEN "local-user" ELSE stored[1]
       IN DsGoOn(queueForSync(ds, "preferences", userId, "upsert", ds.val))
    /\ nextId' = nextId + 1
    /\ UNCHANGED store

\* savePreferences after getUserId: `if (userId)` is false for null and for
\* the empty string.
PrefsUidRead ==
    /\ ds.pc = "uidRead"
    /\ LET userId == getUserId(store, storageOk)
       IN IF userId # Null /\ userId[1] # ""
          THEN /\ DsGoOn(queueForSync(ds, "preferences", userId[1], "upsert", ds.val))
               /\ nextId' = nextId + 1
          ELSE /\ DsReturn(ds, Null, 0)
               /\ UNCHANGED nextId
    /\ UNCHANGED store

saveTemplateCall(template) ==
    /\ CanCall
    /\ LET templateWithId ==
               IF template.id # "" THEN template
               ELSE [template EXCEPT !.id = generateId(nextId)]
       IN DsGoOn(DsStart("saveTemplate", "findTpl", Some(templateWithId), "", ""))
    /\ nextId' = IF template.id # "" THEN nextId ELSE nextId + 1
    /\ UNCHANGED store

FindTemplate ==
    /\ ds.pc = "findTpl"
    /\ LET existing == getTemplates(store, storageOk, now)
           index == FindIndex(existing.data, ds.val[1].id)
       IN DsGoOn([ds EXCEPT !.pc = "tplRead",
                            !.mode = IF index = 0 THEN "add" ELSE "update"])
    /\ UNCHANGED <<store, nextId>>

deleteTemplateCall(templateId) ==
    /\ CanCall
    /\ DsGoOn(DsStart("deleteTemplate", "tplRead", Null, templateId, "delete"))
    /\ UNCHANGED <<store, nextId>>

\* The templates item queued once the helper of saveTemplate / deleteTemplate
\* has returned.
queueTemplate(d) ==
    IF d.op = "saveTemplate"
    THEN queueForSync(d, "templates", d.val[1].id, "upsert", d.val)
    ELSE queueForSync(d, "templates", d.docId, "delete", Null)

\* addTemplate / updateTemplate / deleteTemplate after their getTemplates.
TemplatesRead ==
    /\ ds.pc = "tplRead"
    /\ LET current == getTemplates(store, storageOk, now)
       IN IF ds.mode = "update" /\ FindIndex(current.data, ds.val[1].id) = 0
          THEN /\ DsGoOn(queueTemplate(Awaited(ds, FALSE)))
               /\ nextId' = nextId + 1
          ELSE /\ DsGoOn([ds EXCEPT
                    !.pc = "tplWrite",
                    !.ts = now,
                    !.buf = CASE ds.mode = "add" ->
                                   addTemplateList(current.data, ds.val[1])
                              [] ds.mode = "update" ->
                                   updateTemplateList(current.data, ds.val[1])
                              [] OTHER ->
                                   deleteTemplateList(current.data, ds.docId)])
               /\ UNCHANGED nextId
    /\ UNCHANGED store

TemplatesWrite ==
    /\ ds.pc = "tplWrite"
    /\ store' = setTemplates(store, storageOk, ds.buf, ds.ts)
    /\ DsGoOn(queueTemplate([Awaited(ds, setItemReturn(storageOk))
                                EXCEPT !.buf = <<>>]))
    /\ nextId' = nextId + 1

startSessionCall(workoutId) ==
    /\ CanCall
    /\ DsGoOn(DsStart("startSession", "ssUid", Null, workoutId, ""))
    /\ UNCHANGED <<store, nextId>>

StartSessionUid ==
    /\ ds.pc = "ssUid"
    /\ LET stored == getUserId(store, storageOk)
           userId == IF stored = Null THEN "local-user" ELSE stored[1]
           session == [id |-> generateId(nextId), workoutId |-> ds.docId,
                       userId |-> userId, startedAt |-> now,
                       completedAt |-> Null, logs |-> 0]
       IN DsGoOn([ds EXCEPT !.pc = "curWrite", !.val = Some(session)])
    /\ nextId' = nextId + 1
    /\ UNCHANGED store

updateCurrentSessionCall(session) ==
    /\ CanCall
    /\ DsGoOn(DsStart("updateCurrentSession", "curWrite", Some(session), "", ""))
    /\ UNCHANGED <<store, nextId>>

completeSessionCall(session) ==
    /\ CanCall
    /\ LET completed == [session EXCEPT !.completedAt = Some(now)]
       IN DsGoOn(DsStart("completeSession", "sesRead", Some(completed), "", ""))
    /\ UNCHANGED <<store, nextId>>

\* addSession after its getSessions.
SessionsRead ==
    /\ ds.pc = "sesRead"
    /\ LET current == getSessions(store, storageOk, now)
       IN DsGoOn([ds EXCEPT !.pc = "sesWrite", !.ts = now,
                            !.buf = addSessionList(current.data, ds.val[1])])
    /\ UNCHANGED <<store, nextId>>

SessionsWrite ==
    /\ ds.pc = "sesWrite"
    /\ store' = setSessions(store, storageOk, ds.buf, ds.ts)
    /\ DsGoOn([Awaited(ds, setItemReturn(storageOk))
                 EXCEPT !.pc = "curWrite", !.buf = <<>>])
    /\ UNCHANGED nextId

discardCurrentSessionCall ==
    /\ CanCall
    /\ DsGoOn(DsStart("discardCurrentSession", "curWrite", Null, "", ""))
    /\ UNCHANGED <<store, nextId>>

\* What each caller of storage.setCurrentSession passes.
currentSessionArg(d) ==
    IF d.op \in {"completeSession", "discardCurrentSession"} THEN Null ELSE d.val

CurrentSessionWrite ==
    /\ ds.pc = "curWrite"
    /\ store' = setCurrentSession(store, storageOk, currentSessionArg(ds))
    /\ LET me == Awaited(ds, setCurrentSessionReturn(storageOk, currentSessionArg(ds)))
       IN IF ds.op = "completeSession"
          THEN /\ DsGoOn(queueForSync(me, "sessions", me.val[1].id, "upsert", me.val))
               /\ nextId' = nextId + 1
          ELSE /\ DsReturn(me, IF me.op = "startSession" THEN me.val ELSE Null, 0)
               /\ UNCHANGED nextId

\* addToSyncQueue: its getSyncQueue, then its setSyncQueue.
QueueRead ==
    /\ ds.pc = "qRead"
    /\ DsGoOn([ds EXCEPT !.pc = "qWrite",
                         !.buf = addToSyncQueueList(getSyncQueue(store, storageOk),
                                                    ds.item[1])])
    /\ UNCHANGED <<store, nextId>>

QueueWrite ==
    /\ ds.pc = "qWrite"
    /\ store' = setSyncQueue(store, storageOk, ds.buf)
    /\ DsReturn(Awaited(ds, setItemReturn(storageOk)),
                IF ds.op \in {"saveTemplate", "completeSession"}
                THEN ds.val ELSE Null, 1)
    /\ UNCHANGED nextId

setUserIdCall(userId) ==
    /\ CanCall
    /\ DsGoOn(DsStart("setUserId", "uidWrite", Null, userId, ""))
    /\ UNCHANGED <<store, nextId>>

UserIdWrite ==
    /\ ds.pc = "uidWrite"
    /\ store' = setItem(store, storageOk, "userId", ds.docId)
    /\ DsReturn(Awaited(ds, setItemReturn(storageOk)), Null, 0)
    /\ UNCHANGED nextId

clearUserDataCall ==
    /\ CanCall
    /\ DsGoOn(DsStart("clearUserData", "clear", Null, "", ""))
    /\ UNCHANGED <<store, nextId>>

ClearWrite ==
    /\ ds.pc = "clear"
    /\ store' = clearAllData(store, storageOk)
    /\ DsReturn(Awaited(ds, clearAllDataReturn(storageOk)), Null, 0)
    /\ UNCHANGED nextId

------------------------------------------------------------------------------
(* Remote Store: the Firestore calls of dataService.ts 326-365, 437-480 *)

getDocPath(userId, collection, documentId) ==
    IF collection = "preferences"
    THEN "users/" \o userId \o "/preferences/settings"
    ELSE "users/" \o userId \o "/" \o collection \o "/" \o documentId

\* doc(db, pathParts[0], pathParts[1], pathParts[2], pathParts[3]) for the
\* path getDocPath returns: the four segments that address the document
\* (no id of the model contains a slash).
docRef(userId, collection, documentId) ==
    IF collection = "preferences"
    THEN <<"users", userId, "preferences", "settings">>
    ELSE <<"users", userId, collection, documentId>>

\* The object spread { ...a, ...b }.
Spread(a, b) ==
    [f \in (DOMAIN a) \cup (DOMAIN b) |-> IF f \in DOMAIN b THEN b[f] ELSE a[f]]

\* dataWithMeta stamping _lastModified with the time of the upload.
dataWithMetaUploadTime(item, syncedAt) ==
    Spread(IF item.data = Null THEN [f \in {} |-> 0] ELSE item.data[1],
           [_syncedAt |-> syncedAt, _lastModified |-> syncedAt])

\* dataWithMeta of processSyncItem; spreading null adds no field.
dataWithMeta(item, syncedAt) ==
    Spread(IF item.data = Null THEN [f \in {} |-> 0] ELSE item.data[1],
           [_syncedAt |-> syncedAt, _lastModified |-> item.createdAt])

\* setDoc(docRef, data) without the merge option: the document is replaced.
setDocOverwrite(r, path, data) ==
    [p \in (DOMAIN r) \cup {path} |-> IF p # path THEN r[p] ELSE data]

\* setDoc(docRef, data, { merge: true })
setDocMerge(r, path, data) ==
    [p \in (DOMAIN r) \cup {path} |->
        IF p # path THEN r[p]
        ELSE IF path \in DOMAIN r THEN Spread(r[path], data) ELSE data]

deleteDoc(r, path) == [p \in (DOMAIN r) \ {path} |-> r[p]]

\* processSyncItem reporting success without writing to Firestore.
uploadItemNowhere(r, userId, item, syncedAt) == r

\* The remote effect of a successful processSyncItem.
uploadItem(r, userId, item, syncedAt) ==
    LET path == docRef(userId, item.collection, item.documentId)
    IN IF item.action = "upsert"
       THEN setDocMerge(r, path, dataWithMeta(item, syncedAt))
       ELSE deleteDoc(r, path)

\* The query with where('_lastModified', '>=', lastSync).
QueryPathsFromWatermark(r, userId, coll, lastSync) ==
    {p \in DOMAIN r : /\ p[2] = userId
                      /\ p[3] = coll
                      /\ r[p]._lastModified >= lastSync}

\* query(collection(db,'users',userId,coll), where('_lastModified','>',lastSync)):
\* the matching documents, ordered by _lastModified.
QueryPaths(r, userId, coll, lastSync) ==
    {p \in DOMAIN r : /\ p[2] = userId
                      /\ p[3] = coll
                      /\ r[p]._lastModified > lastSync}

\* Document id a sorts before document id b: Firestore compares ids
\* character by character in the order of the character codes, a proper
\* prefix first.
RECURSIVE IdBefore(_, _)
IdBefore(a, b) ==
    IF Len(a) = 0 THEN Len(b) > 0
    ELSE IF Len(b) = 0 THEN FALSE
    ELSE IF SubSeq(a, 1, 1) = SubSeq(b, 1, 1)
    THEN IdBefore(SubSeq(a, 2, Len(a)), SubSeq(b, 2, Len(b)))
    ELSE LET chars == "-0123456789ABCDEFGHIJKLMNOPQRSTUVWXYZ_abcdefghijklmnopqrstuvwxyz"
             at(c) == CHOOSE i \in 1..Len(chars) : SubSeq(chars, i, i) = c
         IN at(SubSeq(a, 1, 1)) < at(SubSeq(b, 1, 1))

\* snapshot.docs of a query with an inequality on _lastModified: ordered by
\* that field and, among equal values, by document id.
RECURSIVE QueryDocs(_, _)
QueryDocs(r, paths) ==
    IF paths = {} THEN <<>>
    ELSE LET p == CHOOSE q \in paths :
                      \A o \in paths \ {q} :
                         \/ r[q]._lastModified < r[o]._lastModified
                         \/ /\ r[q]._lastModified = r[o]._lastModified
                            /\ IdBefore(q[4], o[4])
         IN <<[id |-> p[4], data |-> r[p]]>> \o QueryDocs(r, paths \ {p})

getDocs(r, userId, coll, lastSync) ==
    QueryDocs(r, QueryPaths(r, userId, coll, lastSync))

\* const { _syncedAt, _lastModified, ...rest } = docSnap.data()
stripMeta(data) == [f \in (DOMAIN data) \ {"_syncedAt", "_lastModified"} |-> data[f]]

\* pullRemoteChanges letting the remote document replace the local record.
mergePulledRemoteWins(list, docs) ==
    SelectSeq(list, LAMBDA r : \A i \in 1..Len(docs) : docs[i].id # r.id)
       \o [i \in 1..Len(docs) |-> stripMeta(docs[i].data)]

\* The loop of pullRemoteChanges over snapshot.docs: a document whose id is
\* not in the local array is pushed, the others are left alone.
RECURSIVE mergePulled(_, _)
mergePulled(list, docs) ==
    IF docs = <<>> THEN list
    ELSE mergePulled(IF FindIndex(list, Head(docs).id) = 0
                     THEN Append(list, stripMeta(Head(docs).data))
                     ELSE list,
                     Tail(docs))

------------------------------------------------------------------------------
(* Sync Engine: dataService.ts 255-575.  cyc[c] is one performSync:         *)
(*   pc       the awaited call ("idle": not running)                       *)
(*   snap     the queue processQueue read; idx the item being processed    *)
(*   uid      auth.currentUser.uid as read before the remote call          *)
(*   itemOk   result.success of the item being processed, msg its error    *)
(*   buf, ts  the array / time of the pending storage write                *)
(*   uploaded, errors, downloaded   the counters of the two phases         *)
(*   pulled   snapshot.docs; lastSync the watermark read                   *)
(*   calls    remote calls issued (setDoc, deleteDoc, getDocs)             *)
(*   outcomes result.success of the items processed so far                 *)
(*   queue0, lastSync0   the two slots when performSync was called         *)
(*   probe    netState.isConnected and auth.currentUser as canSync saw them*)

CycIdle ==
    [pc |-> "idle", snap |-> <<>>, idx |-> 0, uid |-> "", itemOk |-> FALSE,
     msg |-> "", buf |-> <<>>, ts |-> 0, uploaded |-> 0, errors |-> <<>>,
     downloaded |-> 0, pulled |-> <<>>, lastSync |-> 0, calls |-> 0,
     outcomes |-> <<>>, queue0 |-> Null, lastSync0 |-> Null, probe |-> Null]

\* performSync as it is called.
CycCalled ==
    [CycIdle EXCEPT !.queue0 = store["syncQueue"],
                    !.lastSync0 = store["lastSyncTimestamp"]]

SyncError(collection, documentId, message, retryable) ==
    [collection |-> collection, documentId |-> documentId,
     message |-> message, retryable |-> retryable]

\* canSync without its check of auth.currentUser.
canSyncNoCredential(cfg, net, user) ==
    IF ~cfg THEN [canSync |-> FALSE, reason |-> "Firebase not configured"]
    ELSE IF ~net THEN [canSync |-> FALSE, reason |-> "No network connection"]
    ELSE [canSync |-> TRUE]

\* canSync, given isFirebaseEnabled() && db, netState.isConnected and
\* auth.currentUser.
canSync(cfg, net, user) ==
    IF ~cfg THEN [canSync |-> FALSE, reason |-> "Firebase not configured"]
    ELSE IF ~net THEN [canSync |-> FALSE, reason |-> "No network connection"]
    ELSE IF user = Null THEN [canSync |-> FALSE, reason |-> "User not authenticated"]
    ELSE [canSync |-> TRUE]

\* performSync setting idle after every skipped cycle.
skippedStatusIdle(reason) == "idle"

\* The status performSync sets when canSync refuses.
skippedStatus(reason) ==
    IF reason = "No network connection" THEN "offline" ELSE "idle"

skippedResult ==
    [success |-> TRUE, itemsUploaded |-> 0, itemsDownloaded |-> 0, errors |-> <<>>]

\* The cycle goes on to its next awaited call.
CycGoOn(c, me) ==
    /\ cyc' = [cyc EXCEPT ![c] = me]
    /\ last' = NoReturn

\* The callbacks handed to subscribeToSyncStatus.
Observers == {"a", "b"}

\* onStatusChange is the module's one callback slot.  live and delivered
\* record history: the callbacks registered and not yet unsubscribed, and
\* the statuses each callback was called with by the last setStatus call.
ObsNone ==
    [onStatusChange |-> Null, live |-> {},
     delivered |-> [o \in Observers |-> <<>>]]

\* onStatusChange?.(status)
notify(slot, s) == [o \in Observers |-> IF slot = Some(o) THEN <<s>> ELSE <<>>]

setStatus(s) ==
    /\ status' = s
    /\ obs' = [obs EXCEPT !.delivered = notify(obs.onStatusChange, s)]

\* subscribeToSyncStatus(callback)
subscribeToSyncStatus(o) ==
    /\ o \notin obs.live
    /\ obs' = [obs EXCEPT !.onStatusChange = Some(o), !.live = @ \cup {o}]

\* The function subscribeToSyncStatus returned for callback o is invoked.
unsubscribe(o) ==
    /\ o \in obs.live
    /\ obs' = [obs EXCEPT !.onStatusChange = Null, !.live = @ \ {o}]

\* performSync returns res.
CycReturn(c, me, reason, res) ==
    /\ cyc' = [cyc EXCEPT ![c] = CycIdle]
    /\ last' = [NoReturn EXCEPT !.who = c, !.op = "performSync", !.res = Some(res),
                                !.reason = reason, !.snap = me.snap,
                                !.outcomes = me.outcomes, !.calls = me.calls,
                                !.queue0 = me.queue0, !.lastSync0 = me.lastSync0,
                                !.probe = me.probe]

\* performSync when canSync refuses.
SkipCycle(c, me, reason) ==
    /\ setStatus(skippedStatus(reason))
    /\ CycReturn(c, me, reason, skippedResult)

\* pullRemoteChanges up to its first await; without a user it returns at
\* once and performSync goes on to setLastSyncTimestamp(Date.now()).
beginPull(c) ==
    IF authUser = Null
    THEN [c EXCEPT !.pc = "tsWrite", !.ts = now]
    ELSE [c EXCEPT !.pc = "tsRead", !.uid = authUser[1]]

\* processQueue giving up only once the count has passed the ceiling.
retriesExhaustedLate(newRetryCount) == newRetryCount > MAX_RETRY_COUNT

\* Whether the failure that takes the count to newRetryCount is the last.
retriesExhausted(newRetryCount) == newRetryCount >= MAX_RETRY_COUNT

\* processQueue after a failed processSyncItem, up to its next await.
failItem(c, message) ==
    LET item == c.snap[c.idx]
        newRetryCount == item.retryCount + 1
    IN IF retriesExhausted(newRetryCount)
       THEN [c EXCEPT !.itemOk = FALSE, !.msg = message,
                      !.outcomes = Append(@, FALSE),
                      !.errors = Append(@, SyncError(item.collection,
                                          item.documentId, message, FALSE)),
                      !.pc = "rmRead"]
       ELSE [c EXCEPT !.itemOk = FALSE, !.msg = message,
                      !.outcomes = Append(@, FALSE), !.pc = "updRead"]

\* processQueue leaving its loop after the first item.
beginItemFirstOnly(c, i) ==
    IF i > 1 THEN beginPull(c)
    ELSE IF authUser = Null
         THEN failItem([c EXCEPT !.idx = i], "Firebase not available")
         ELSE [c EXCEPT !.idx = i, !.uid = authUser[1], !.ts = now, !.pc = "upload"]

\* The for loop of processQueue reaching item i: processSyncItem up to its
\* remote call, or the end of the upload phase.
beginItem(c, i) ==
    IF i > Len(c.snap) THEN beginPull(c)
    ELSE IF authUser = Null
         THEN failItem([c EXCEPT !.idx = i], "Firebase not available")
         ELSE [c EXCEPT !.idx = i, !.uid = authUser[1], !.ts = now, !.pc = "upload"]

retryableError(c) ==
    LET item == c.snap[c.idx]
    IN [c EXCEPT !.errors = Append(@, SyncError(item.collection, item.documentId,
                                                c.msg, TRUE))]

\* performSync is called: canSync checks the configuration, then awaits
\* NetInfo.fetch.
CycleStart(c) ==
    /\ cyc[c].pc = "idle"
    /\ IF ~configured
       THEN SkipCycle(c, CycCalled, canSync(configured, TRUE, authUser).reason)
       ELSE /\ CycGoOn(c, [CycCalled EXCEPT !.pc = "netinfo"])
            /\ UNCHANGED <<status, obs>>
    /\ UNCHANGED <<store, remote>>

\* NetInfo.fetch resolves; the rest of canSync; processQueue is entered.
Preflight(c) ==
    /\ cyc[c].pc = "netinfo"
    /\ \E isConnected \in BOOLEAN :
         LET syncCheck == canSync(configured, isConnected, authUser)
             me == [cyc[c] EXCEPT !.probe = Some([isConnected |-> isConnected,
                                                  currentUser |-> authUser])]
         IN IF ~syncCheck.canSync
            THEN SkipCycle(c, me, syncCheck.reason)
            ELSE /\ CycGoOn(c, [me EXCEPT !.pc = "queueRead"])
                 /\ setStatus("syncing")
    /\ UNCHANGED <<store, remote>>

SyncQueueRead(c) ==
    /\ cyc[c].pc = "queueRead"
    /\ LET queue == getSyncQueue(store, storageOk)
       IN CycGoOn(c, IF Len(queue) = 0 THEN beginPull(cyc[c])
                     ELSE beginItem([cyc[c] EXCEPT !.snap = queue], 1))
    /\ UNCHANGED <<store, remote, status, obs>>

\* setDoc / deleteDoc resolves or rejects.
Upload(c) ==
    /\ cyc[c].pc = "upload"
    /\ \E ok \in BOOLEAN :
         LET me == [cyc[c] EXCEPT !.calls = @ + 1]
         IN IF ok
            THEN /\ remote' = uploadItem(remote, me.uid, me.snap[me.idx], me.ts)
                 /\ CycGoOn(c, [me EXCEPT !.itemOk = TRUE,
                                           !.outcomes = Append(@, TRUE),
                                           !.pc = "rmRead"])
            ELSE /\ remote' = remote
                 /\ CycGoOn(c, failItem(me, "remote error"))
    /\ UNCHANGED <<store, status, obs>>

\* removeFromSyncQueue: its getSyncQueue, then its setSyncQueue.
RemoveRead(c) ==
    /\ cyc[c].pc = "rmRead"
    /\ CycGoOn(c, [cyc[c] EXCEPT
                     !.pc = "rmWrite",
                     !.buf = removeFromSyncQueueList(getSyncQueue(store, storageOk),
                                                     cyc[c].snap[cyc[c].idx].id)])
    /\ UNCHANGED <<store, remote, status, obs>>

RemoveWrite(c) ==
    /\ cyc[c].pc = "rmWrite"
    /\ store' = setSyncQueue(store, storageOk, cyc[c].buf)
    /\ LET me == [cyc[c] EXCEPT !.buf = <<>>,
                      !.uploaded = IF cyc[c].itemOk THEN @ + 1 ELSE @]
       IN CycGoOn(c, beginItem(me, me.idx + 1))
    /\ UNCHANGED <<remote, status, obs>>

\* updateSyncQueueItem: its getSyncQueue, then its setSyncQueue.
UpdateRead(c) ==
    /\ cyc[c].pc = "updRead"
    /\ LET me == cyc[c]
           item == me.snap[me.idx]
           queue == getSyncQueue(store, storageOk)
       IN CycGoOn(c, IF FindIndex(queue, item.id) = 0
                     THEN beginItem(retryableError(me), me.idx + 1)
                     ELSE [me EXCEPT !.pc = "updWrite",
                                     !.buf = updateSyncQueueItemList(
                                                queue, item.id, item.retryCount + 1)])
    /\ UNCHANGED <<store, remote, status, obs>>

UpdateWrite(c) ==
    /\ cyc[c].pc = "updWrite"
    /\ store' = setSyncQueue(store, storageOk, cyc[c].buf)
    /\ LET me == retryableError([cyc[c] EXCEPT !.buf = <<>>])
       IN CycGoOn(c, beginItem(me, me.idx + 1))
    /\ UNCHANGED <<remote, status, obs>>

\* performSync writing back the watermark pullRemoteChanges read.
endPullStale(c) == [c EXCEPT !.pc = "tsWrite", !.ts = c.lastSync, !.pulled = <<>>]

\* The download phase is over: performSync calls
\* storage.setLastSyncTimestamp(Date.now()).
endPull(c) == [c EXCEPT !.pc = "tsWrite", !.ts = now, !.pulled = <<>>]

\* What follows the sessions block / the templates block of pullRemoteChanges.
afterCollection(c, coll) ==
    IF coll = "sessions" THEN [c EXCEPT !.pc = "getTemplates", !.pulled = <<>>]
    ELSE endPull(c)

LastSyncRead(c) ==
    /\ cyc[c].pc = "tsRead"
    /\ CycGoOn(c, [cyc[c] EXCEPT !.pc = "getSessions",
                                 !.lastSync = getLastSyncTimestamp(store, storageOk)])
    /\ UNCHANGED <<store, remote, status, obs>>

PullPc(coll) == IF coll = "sessions" THEN "getSessions" ELSE "getTemplates"
ListReadPc(coll) == IF coll = "sessions" THEN "sesRead" ELSE "tplRead"
ListWritePc(coll) == IF coll = "sessions" THEN "sesWrite" ELSE "tplWrite"

\* getDocs resolves or rejects; a rejection is caught at the end of
\* pullRemoteChanges.
GetDocs(c, coll) ==
    /\ cyc[c].pc = PullPc(coll)
    /\ \E ok \in BOOLEAN :
         LET me == [cyc[c] EXCEPT !.calls = @ + 1]
             docs == getDocs(remote, me.uid, coll, me.lastSync)
         IN CycGoOn(c,
                IF ~ok
                THEN endPull([me EXCEPT !.errors = Append(@,
                                SyncError("sessions", "*", "remote error", TRUE))])
                ELSE IF docs = <<>> THEN afterCollection(me, coll)
                ELSE [me EXCEPT !.pc = ListReadPc(coll), !.pulled = docs])
    /\ UNCHANGED <<store, remote, status, obs>>

\* storage.getSessions / getTemplates resolves; the loop over the documents.
PullListRead(c, coll) ==
    /\ cyc[c].pc = ListReadPc(coll)
    /\ LET me == cyc[c]
           current == IF coll = "sessions" THEN getSessions(store, storageOk, now)
                      ELSE getTemplates(store, storageOk, now)
           merged == mergePulled(current.data, me.pulled)
           added == Len(merged) - Len(current.data)
       IN CycGoOn(c,
                IF added = 0 THEN afterCollection(me, coll)
                ELSE [me EXCEPT !.pc = ListWritePc(coll), !.buf = merged,
                                !.ts = now, !.downloaded = @ + added])
    /\ UNCHANGED <<store, remote, status, obs>>

\* storage.setSessions / setTemplates of the pulled documents.
PullListWrite(c, coll) ==
    /\ cyc[c].pc = ListWritePc(coll)
    /\ store' = IF coll = "sessions"
                THEN setSessions(store, storageOk, cyc[c].buf, cyc[c].ts)
                ELSE setTemplates(store, storageOk, cyc[c].buf, cyc[c].ts)
    /\ CycGoOn(c, afterCollection([cyc[c] EXCEPT !.buf = <<>>], coll))
    /\ UNCHANGED <<remote, status, obs>>

\* performSync taking any reported error for a non-retryable one.
hasAnyErrors(errors) == Len(errors) > 0

hasNonRetryableErrors(errors) == \E i \in 1..Len(errors) : ~errors[i].retryable

\* performSync ending a cycle without dropped items as offline.
finalStatusOffline(errors) ==
    IF hasNonRetryableErrors(errors) THEN "error" ELSE "offline"

finalStatus(errors) == IF hasNonRetryableErrors(errors) THEN "error" ELSE "idle"

SyncResult(c) ==
    [success |-> Len(c.errors) = 0, itemsUploaded |-> c.uploaded,
     itemsDownloaded |-> c.downloaded, errors |-> c.errors]

\* setLastSyncTimestamp resolves; performSync sets the status and returns.
LastSyncWrite(c) ==
    /\ cyc[c].pc = "tsWrite"
    /\ store' = setLastSyncTimestamp(store, storageOk, cyc[c].ts)
    /\ setStatus(finalStatus(cyc[c].errors))
    /\ CycReturn(c, cyc[c], "", SyncResult(cyc[c]))
    /\ UNCHANGED remote

------------------------------------------------------------------------------
(* The sign-in bridge: workoutService.ts 153-279, functions/src/index.ts.   *)
(* signIn is the signInToFirebase call in flight:                           *)
(*   pc          "idle", "fetch" (awaiting the token endpoint), "body"      *)
(*               (awaiting the body of its response) or "custom"            *)
(*               (awaiting signInWithCustomToken)                           *)
(*   clerkToken  the Clerk session token it was called with                 *)
(*   resp        the last response of the token endpoint, null when fetch   *)
(*               rejected                                                   *)
(*   token       the Firebase token getFirebaseToken returned               *)
(*   failed      the last call that went to the endpoint threw              *)

\* Clerk session tokens: none, one verifyToken rejects as invalid or
\* expired, one it verifies without a subject, and one it verifies for u1.
ClerkTokens == {"", "expired", "nosub", "u1"}

SignInIdle ==
    [pc |-> "idle", clerkToken |-> "", resp |-> Null, token |-> Null, failed |-> FALSE]

Response(code, token) == [status |-> code, firebaseToken |-> token]

\* createFirebaseToken: the response to a request with the bearer token.
\* clerkError is what getClerkClient or verifyToken throws for a reason other
\* than the token itself (no secret key, the network) and mintError what
\* createCustomToken throws: "none" when it does not throw, "invalid" for an
\* Error whose message includes 'expired' or 'invalid', "other" for any other
\* thrown value.  The one catch answers 401 to the first kind and 500 to the
\* second, whoever threw.
createFirebaseToken(method, clerkToken, clerkError, mintError) ==
    LET caught(error) == IF error = "invalid" THEN Response(401, Null)
                         ELSE Response(500, Null)
    IN IF method # "POST" THEN Response(405, Null)
       ELSE IF clerkToken = "" THEN Response(401, Null)
       ELSE IF clerkError # "none" THEN caught(clerkError)
       ELSE IF clerkToken = "expired" THEN caught("invalid")
       ELSE IF clerkToken = "nosub" THEN Response(401, Null)
       ELSE IF mintError # "none" THEN caught(mintError)
       ELSE Response(200, Some(clerkToken))

\* getFirebaseToken taking the token of any response that came back.
getFirebaseTokenUnchecked(resp, clerkToken) ==
    IF resp = Null THEN Null ELSE Some(clerkToken)

\* getFirebaseToken once the body of the response is read: the token, or
\* null when it throws (response.ok false, no firebaseToken in the body).
getFirebaseToken(resp, clerkToken) ==
    IF resp = Null THEN Null
    ELSE IF ~(resp[1].status >= 200 /\ resp[1].status <= 299) THEN Null
    ELSE IF resp[1].firebaseToken = Null THEN Null
    ELSE resp[1].firebaseToken

SignInThrows(resp) ==
    /\ signIn' = [SignInIdle EXCEPT !.resp = resp, !.failed = TRUE]
    /\ last' = [NoReturn EXCEPT !.op = "signInToFirebase", !.failed = TRUE]
    /\ UNCHANGED authUser

\* signInToFirebase(clerkToken) up to its fetch; it returns null at once
\* when the bridge is not configured (endpoint: TOKEN_ENDPOINT is set).
SignInCall(clerkToken, endpoint) ==
    /\ signIn.pc = "idle"
    /\ IF ~(configured /\ endpoint)
       THEN /\ last' = [NoReturn EXCEPT !.op = "signInToFirebase"]
            /\ UNCHANGED signIn
       ELSE /\ signIn' = [signIn EXCEPT !.pc = "fetch", !.clerkToken = clerkToken,
                                         !.resp = Null, !.token = Null]
            /\ last' = NoReturn
    /\ UNCHANGED authUser

\* fetch settles: it rejects and signInToFirebase throws, or getFirebaseToken
\* goes on to read the body (response.text() when response.ok is false,
\* response.json() otherwise).
TokenResponse ==
    /\ signIn.pc = "fetch"
    /\ \/ SignInThrows(Null)
       \/ \E clerkError, mintError \in {"none", "invalid", "other"} :
             /\ signIn' = [signIn EXCEPT
                             !.pc = "body",
                             !.resp = Some(createFirebaseToken("POST", signIn.clerkToken,
                                                               clerkError, mintError))]
             /\ last' = NoReturn
             /\ UNCHANGED authUser

\* The read of the body settles: it rejects (the stream fails, the body of an
\* ok response is not JSON) and signInToFirebase throws, or it resolves and
\* getFirebaseToken returns or throws.
TokenBody ==
    /\ signIn.pc = "body"
    /\ \/ SignInThrows(signIn.resp)
       \/ LET firebaseToken == getFirebaseToken(signIn.resp, signIn.clerkToken)
          IN IF firebaseToken = Null
             THEN SignInThrows(signIn.resp)
             ELSE /\ signIn' = [signIn EXCEPT !.pc = "custom", !.token = firebaseToken]
                  /\ last' = NoReturn
                  /\ UNCHANGED authUser

\* signInWithCustomToken settles.
CustomTokenSignIn ==
    /\ signIn.pc = "custom"
    /\ \/ /\ authUser' = signIn.token
          /\ signIn' = [SignInIdle EXCEPT !.resp = signIn.resp]
          /\ last' = [NoReturn EXCEPT !.op = "signInToFirebase"]
       \/ SignInThrows(signIn.resp)

SignIn ==
    /\ \/ \E clerkToken \in ClerkTokens, endpoint \in BOOLEAN :
             SignInCall(clerkToken, endpoint)
       \/ TokenResponse
       \/ TokenBody
       \/ CustomTokenSignIn
    /\ UNCHANGED <<store, storageOk, remote, configured, now, nextId, status, obs,
                   ds, cyc, passes, newest, sched>>

------------------------------------------------------------------------------
(* The environment *)

\* signInWithCustomToken / signOut change auth.currentUser.
AuthChange ==
    /\ configured
    /\ \/ authUser = Null /\ \E u \in Uids : authUser' = Some(u)
       \/ authUser # Null /\ authUser' = Null
    /\ UNCHANGED <<storageOk, signIn>>

\* AsyncStorage starts or stops throwing.
StorageFault ==
    /\ storageOk' = ~storageOk
    /\ UNCHANGED <<authUser, signIn>>

------------------------------------------------------------------------------
(* Specifications *)

EmptyStore == [k \in STORAGE_KEYS |-> Null]

\* The module state of the scheduler before initializeSyncService is called,
\* the application in the foreground:
\*   currentState          AppState.currentState
\*   syncIntervalId        TRUE while the interval of startPeriodicSync is set
\*   appStateSubscription  TRUE while the variable holds a subscription
\*   timers                the intervals set and not cleared
\*   leaked                the subscriptions still registered with AppState
\*                         that the variable no longer holds
\*   cleanups              the cleanup functions returned and not yet invoked
\*   initialized           TRUE once initializeSyncService has been called
\*   unset                 the keys of firebaseConfig that have no value
SchedOff ==
    [currentState |-> "active", syncIntervalId |-> FALSE,
     appStateSubscription |-> FALSE, initialized |-> FALSE, unset |-> {},
     timers |-> 0, leaked |-> 0, cleanups |-> 0]

\* validateConfig requiring the API key only.
validateConfigApiKeyOnly(unset) == "apiKey" \notin unset

\* validateConfig: none of the required keys is missing.
validateConfig(unset) ==
    LET required == {"apiKey", "projectId", "appId"}
        missing == {key \in required : key \in unset}
    IN ~(Cardinality(missing) > 0)

\* isFirebaseEnabled: app and db are set when the module loads, if and only
\* if the configuration is valid.
isFirebaseEnabled(unset) == validateConfig(unset)

\* The configurations the application is started with in most
\* specifications: complete, or without the application identifier.
ConfigInputs == {{}, {"appId"}}

\* Documents another installation of the application left in the remote store.
EarlierDocs ==
    [p \in {<<"users", "u1", "sessions", "s1">>, <<"users", "u1", "templates", "t1">>,
            <<"users", "u1", "templates", "t2">>} |->
        IF p[3] = "sessions"
        THEN [id |-> "s1", workoutId |-> "w0", userId |-> "u1", startedAt |-> 1,
              completedAt |-> Some(1), logs |-> 1, _syncedAt |-> 1, _lastModified |-> 1]
        ELSE [id |-> p[4], name |-> "Z", notes |-> "n", _syncedAt |-> 1,
              _lastModified |-> 1]]

\* The store after startSession, setUserId("u1") and
\* saveTemplate({id: "t1", name: "A"}) made at time 1 with no sync cycle since.
QueuedStore ==
    LET template == [id |-> "t1", name |-> "A"]
    IN [EmptyStore EXCEPT
          !["userId"] = Some("u1"),
          !["currentSession"] = Some(HeldSession),
          !["templates"] = Some(SyncedData(<<template>>, 1)),
          !["syncQueue"] = Some(<<SyncQueueItem("g0", "templates", "t1", "upsert",
                                                Some(template), 1)>>)]

\* The document templates/t1 is watched: newest is the item the last
\* addToSyncQueue that resolved true appended for it, whether or not the
\* item is still queued; null again once clearUserData has emptied the store
\* or processQueue has given that item up at the retry ceiling.
WatchedDoc(item) == item.collection = "templates" /\ item.documentId = "t1"

NewestQueued(queue) ==
    LET at == {i \in 1..Len(queue) : WatchedDoc(queue[i])}
    IN IF at = {} THEN Null
       ELSE Some(queue[CHOOSE i \in at : \A j \in at : j <= i])

Init ==
    /\ store \in {EmptyStore, QueuedStore}
    /\ storageOk = TRUE
    /\ remote = EarlierDocs
    /\ sched \in {[SchedOff EXCEPT !.unset = u] : u \in ConfigInputs}
    /\ configured = isFirebaseEnabled(sched.unset)
    /\ authUser = Null
    /\ signIn = SignInIdle
    /\ now = 1
    /\ nextId = 0
    /\ status = "idle"
    /\ obs = ObsNone
    /\ ds = DsIdle
    /\ cyc = [c \in CycleSlots |-> CycIdle]
    /\ last = NoReturn
    /\ passes = 0
    /\ newest = NewestQueued(getSyncQueue(store, TRUE))

\* The item of QueuedStore is watched: passes counts the performSync calls
\* that passed canSync, read the item in their snapshot and returned with the
\* item still queued.  It is 0 while the item is not queued.
WatchedId == "g0"

Ids(list) == {list[i].id : i \in 1..Len(list)}

Watch ==
    /\ passes' =
         IF WatchedId \notin Ids(getSyncQueue(store', TRUE)) THEN 0
         ELSE IF /\ last'.op = "performSync"
                 /\ last'.reason = ""
                 /\ WatchedId \in Ids(last'.snap)
                 /\ passes < MAX_RETRY_COUNT
              THEN passes + 1
              ELSE passes
    /\ newest' =
         IF /\ ds.pc = "qWrite"
            /\ ds'.pc # "qWrite"
            /\ setItemReturn(storageOk)
            /\ WatchedDoc(ds.item[1])
         THEN ds.item
         ELSE IF \/ /\ ds.pc = "clear"
                    /\ ds'.pc # "clear"
                    /\ clearAllDataReturn(storageOk)
                 \/ \E c \in CycleSlots :
                       /\ cyc[c].pc = "rmWrite"
                       /\ cyc'[c].pc # "rmWrite"
                       /\ ~cyc[c].itemOk
                       /\ newest # Null
                       /\ newest[1].id = cyc[c].snap[cyc[c].idx].id
              THEN Null
              ELSE newest

\* No handler is in flight.
Quiet == ds.pc = "idle" /\ \A c \in CycleSlots : cyc[c].pc = "idle"

DataServiceCall ==
    /\ \/ \E u \in LoadUnits :
            savePreferencesCall([defaultLoadUnit |-> u, autoScrollOnComplete |-> TRUE])
       \/ \E t \in TemplateInputs : saveTemplateCall(t)
       \/ deleteTemplateCall("t1")
       \/ startSessionCall("w1")
       \/ \E s \in SessionInputs : updateCurrentSessionCall(s)
       \/ \E s \in SessionInputs : completeSessionCall(s)
       \/ discardCurrentSessionCall
       \/ \E u \in Uids : setUserIdCall(u)
       \/ clearUserDataCall
    /\ now' = now + 1
    /\ UNCHANGED <<storageOk, remote, configured, authUser, signIn, status, obs, cyc, sched>>
    /\ Watch

DataServiceStep ==
    /\ \/ PrefsWrite
       \/ PrefsUidRead
       \/ FindTemplate
       \/ TemplatesRead
       \/ TemplatesWrite
       \/ StartSessionUid
       \/ SessionsRead
       \/ SessionsWrite
       \/ CurrentSessionWrite
       \/ QueueRead
       \/ QueueWrite
       \/ UserIdWrite
       \/ ClearWrite
    /\ UNCHANGED <<storageOk, remote, configured, authUser, signIn, now, status, obs, cyc, sched>>
    /\ Watch

SyncStart(c) ==
    /\ CycleStart(c)
    /\ UNCHANGED <<storageOk, configured, authUser, signIn, now, nextId, ds, sched>>
    /\ Watch

\* The continuations of performSync held back while the application is in
\* the background.
SyncStepForeground(c) ==
    /\ sched.currentState # "background"
    /\ \/ Preflight(c)
       \/ SyncQueueRead(c)
       \/ Upload(c)
       \/ RemoveRead(c)
       \/ RemoveWrite(c)
       \/ UpdateRead(c)
       \/ UpdateWrite(c)
       \/ LastSyncRead(c)
       \/ \E coll \in {"sessions", "templates"} :
             GetDocs(c, coll) \/ PullListRead(c, coll) \/ PullListWrite(c, coll)
       \/ LastSyncWrite(c)
    /\ UNCHANGED <<storageOk, configured, authUser, signIn, now, nextId, ds, sched>>
    /\ Watch

SyncStep(c) ==
    /\ \/ Preflight(c)
       \/ SyncQueueRead(c)
       \/ Upload(c)
       \/ RemoveRead(c)
       \/ RemoveWrite(c)
       \/ UpdateRead(c)
       \/ UpdateWrite(c)
       \/ LastSyncRead(c)
       \/ \E coll \in {"sessions", "templates"} :
             GetDocs(c, coll) \/ PullListRead(c, coll) \/ PullListWrite(c, coll)
       \/ LastSyncWrite(c)
    /\ UNCHANGED <<storageOk, configured, authUser, signIn, now, nextId, ds, sched>>
    /\ Watch

Environment ==
    /\ AuthChange
    /\ last' = NoReturn
    /\ UNCHANGED <<store, remote, configured, now, nextId, status, obs, ds, cyc, passes,
                   newest, sched>>

Faults ==
    /\ StorageFault
    /\ last' = NoReturn
    /\ UNCHANGED <<store, remote, configured, now, nextId, status, obs, ds, cyc, passes,
                   newest, sched>>

\* Handlers run one after another: a call or a cycle starts only when no
\* other is in flight.  Which trigger starts the cycle makes no difference
\* then.
Next ==
    \/ Quiet /\ DataServiceCall
    \/ DataServiceStep
    \/ Quiet /\ SyncStart("timer")
    \/ SyncStep("timer")
    \/ Environment

Spec == Init /\ [][Next]_vars

\* The calls that end in queueForSync whatever the store holds.
EnqueueingCall ==
    /\ DataServiceCall
    /\ ds'.op \in {"saveTemplate", "deleteTemplate", "completeSession"}

\* Those Data Service calls and the cycles of the timer interleave at their
\* awaits.
NextOverlap ==
    \/ EnqueueingCall
    \/ DataServiceStep
    \/ SyncStart("timer")
    \/ SyncStep("timer")
    \/ Environment

\* clearUserData is called, once, while the cycles of the timer run; no
\* cycle is started after the call, so that a cycle that ends after it was in
\* flight during it.
\* The interface subscribes to the status and unsubscribes while cycles run.
Subscriptions ==
    /\ \E o \in Observers : subscribeToSyncStatus(o) \/ unsubscribe(o)
    /\ last' = NoReturn
    /\ UNCHANGED <<store, storageOk, remote, configured, authUser, signIn, now, nextId,
                   status, ds, cyc, passes, newest, sched>>

NextObservers ==
    \/ Subscriptions
    \/ Quiet /\ SyncStart("timer")
    \/ SyncStep("timer")
    \/ Environment

SpecObservers == Init /\ [][NextObservers]_vars

\* The read operations of the Data Service: each awaits one typed getter of
\* the Record Store and returns what it derives from the result.
ReadOps ==
    {"getPreferences", "getTemplates", "getSessions", "getSessionById",
     "getCurrentSession", "getSyncQueueLength", "hasPendingSyncs"}

\* sessions.find(s => s.id === sessionId) ?? null
findSession(sessions, sessionId) ==
    LET at == {i \in 1..Len(sessions) : sessions[i].id = sessionId}
    IN IF at = {} THEN Null
       ELSE Some(sessions[CHOOSE i \in at : \A j \in at : i <= j])

DataServiceRead ==
    /\ \E op \in ReadOps :
         last' = [NoReturn EXCEPT
                    !.who = "ds", !.op = op,
                    !.ret = Some(
                      CASE op = "getPreferences" -> getPreferences(store, storageOk, now).data
                        [] op = "getTemplates" -> getTemplates(store, storageOk, now).data
                        [] op = "getSessions" -> getSessions(store, storageOk, now).data
                        [] op = "getSessionById" ->
                             findSession(getSessions(store, storageOk, now).data, "s1")
                        [] op = "getCurrentSession" -> getCurrentSession(store, storageOk)
                        [] op = "getSyncQueueLength" -> Len(getSyncQueue(store, storageOk))
                        [] OTHER -> Len(getSyncQueue(store, storageOk)) > 0)]
    /\ UNCHANGED <<store, storageOk, remote, configured, authUser, signIn, now, nextId,
                   status, obs, ds, cyc, passes, newest, sched>>

\* Init, or the store after setUserId(''): storage.setUserId stores any
\* string.
InitFrame ==
    /\ store \in {EmptyStore, QueuedStore, [EmptyStore EXCEPT !["userId"] = Some("")]}
    /\ storageOk = TRUE
    /\ remote = EarlierDocs
    /\ sched \in {[SchedOff EXCEPT !.unset = u] : u \in ConfigInputs}
    /\ configured = isFirebaseEnabled(sched.unset)
    /\ authUser = Null
    /\ signIn = SignInIdle
    /\ now = 1
    /\ nextId = 0
    /\ status = "idle"
    /\ obs = ObsNone
    /\ ds = DsIdle
    /\ cyc = [c \in CycleSlots |-> CycIdle]
    /\ last = NoReturn
    /\ passes = 0
    /\ newest = NewestQueued(getSyncQueue(store, TRUE))

\* The Data Service alone, one call after another, on a store a cycle may
\* have filled.
NextFrame ==
    \/ Quiet /\ DataServiceCall
    \/ DataServiceStep
    \/ Quiet /\ DataServiceRead
    \/ Quiet /\ now = 1 /\ SyncStart("timer")
    \/ SyncStep("timer")
    \/ Environment

SpecFrame == InitFrame /\ [][NextFrame]_vars

\* The application signs in while cycles run; nothing signs out.
NextSignIn ==
    \/ SignIn
    \/ SyncStart("timer")
    \/ SyncStep("timer")

SpecSignIn == Init /\ [][NextSignIn]_vars

ClearUserDataCall ==
    /\ DataServiceCall
    /\ ds'.op = "clearUserData"

NextClear ==
    \/ ClearUserDataCall
    \/ DataServiceStep
    \/ ds.op = "none" /\ now = 1 /\ SyncStart("timer")
    \/ SyncStep("timer")
    \/ Environment

SpecClear == Init /\ [][NextClear]_vars

\* The accounts a Clerk session token can be exchanged for.
Accounts == {"u1", "u2"}

\* signInToFirebase resolves for the account of the token it was given, or
\* signOutOfFirebase resolves: auth.currentUser changes.
CredentialChange ==
    /\ configured
    /\ \/ authUser' = Null
       \/ \E a \in Accounts : authUser' = Some(a)
    /\ authUser' # authUser
    /\ last' = NoReturn
    /\ UNCHANGED <<store, storageOk, remote, configured, signIn, now, nextId,
                   status, obs, ds, cyc, passes, newest, sched>>

\* Handlers run one after another while the remote credential changes
\* between the accounts, whatever user id is stored locally.
NextIdentity ==
    \/ Quiet /\ DataServiceCall
    \/ DataServiceStep
    \/ Quiet /\ SyncStart("timer")
    \/ SyncStep("timer")
    \/ CredentialChange

SpecIdentity == Init /\ [][NextIdentity]_vars

CompleteSessionCall ==
    /\ DataServiceCall
    /\ ds'.op = "completeSession"

\* completeSession runs while AsyncStorage fails now and then.
NextFault ==
    \/ CompleteSessionCall
    \/ DataServiceStep
    \/ Faults

SpecFault == Init /\ [][NextFault]_vars

SpecOverlap == Init /\ [][NextOverlap]_vars

\* Scheduling: dataService.ts 580-653.

AppStates == {"active", "background", "inactive"}

\* The performSync invocation a trigger starts: at most two are in flight.
FreeSlot == IF cyc["timer"].pc = "idle" THEN "timer" ELSE "syncNow"

\* startPeriodicSync with the scheduler state s: nothing when the interval
\* is set; otherwise performSync is called and the interval is set.
startPeriodicSync(s) ==
    IF s.syncIntervalId
    THEN /\ sched' = s
         /\ last' = NoReturn
         /\ UNCHANGED <<store, remote, status, obs, cyc>>
    ELSE /\ CycleStart(FreeSlot)
         /\ sched' = [s EXCEPT !.syncIntervalId = TRUE, !.timers = @ + 1]

\* stopPeriodicSync leaving the interval set.
stopPeriodicSyncNoClear(s) ==
    /\ sched' = s
    /\ last' = NoReturn
    /\ UNCHANGED <<store, remote, status, obs, cyc>>

\* stopPeriodicSync: clearInterval.
stopPeriodicSync(s) ==
    /\ sched' = [s EXCEPT !.syncIntervalId = FALSE,
                          !.timers = IF s.syncIntervalId THEN @ - 1 ELSE @]
    /\ last' = NoReturn
    /\ UNCHANGED <<store, remote, status, obs, cyc>>

\* initializeSyncService: the new subscription replaces the one the variable
\* held, which stays registered with AppState.
initializeSyncService ==
    LET s == [sched EXCEPT !.initialized = TRUE]
    IN IF ~configured
       THEN /\ sched' = s
            /\ last' = NoReturn
            /\ UNCHANGED <<store, remote, status, obs, cyc>>
       ELSE LET t == [s EXCEPT !.appStateSubscription = TRUE,
                               !.leaked = IF s.appStateSubscription THEN @ + 1 ELSE @,
                               !.cleanups = @ + 1]
            IN IF t.currentState = "active"
               THEN startPeriodicSync(t)
               ELSE /\ sched' = t
                    /\ last' = NoReturn
                    /\ UNCHANGED <<store, remote, status, obs, cyc>>

\* initializeSyncService, called once when the application starts.
InitializeSyncService ==
    /\ ~sched.initialized
    /\ initializeSyncService

\* initializeSyncService is called again.
InitializeAgain ==
    /\ sched.initialized
    /\ sched.cleanups < MaxInits
    /\ sched.leaked < MaxInits
    /\ initializeSyncService

\* The cleanup function initializeSyncService returned.
CleanupSyncService ==
    /\ sched.cleanups > 0
    /\ stopPeriodicSync([sched EXCEPT !.appStateSubscription = FALSE,
                                      !.cleanups = @ - 1])

\* The application changes state; handleAppStateChange runs if registered.
AppStateChange(nextAppState) ==
    /\ nextAppState # sched.currentState
    /\ LET s == [sched EXCEPT !.currentState = nextAppState]
       IN IF ~(sched.appStateSubscription \/ sched.leaked > 0)
          THEN /\ sched' = s
               /\ last' = NoReturn
               /\ UNCHANGED <<store, remote, status, obs, cyc>>
          ELSE IF nextAppState = "active" THEN startPeriodicSync(s)
               ELSE stopPeriodicSync(s)

\* The interval of startPeriodicSync fires.
TimerFires ==
    /\ sched.syncIntervalId
    /\ CycleStart("timer")
    /\ UNCHANGED sched

\* syncNow is called.
syncNow ==
    /\ CycleStart("syncNow")
    /\ UNCHANGED sched

Scheduling ==
    /\ \/ InitializeSyncService
       \/ CleanupSyncService
       \/ \E nextAppState \in AppStates : AppStateChange(nextAppState)
       \/ TimerFires
       \/ syncNow
    /\ UNCHANGED <<storageOk, configured, authUser, signIn, now, nextId, ds>>
    /\ Watch

\* The application starts in the foreground or in the background with one
\* item queued.  Cycles run one after another: a step of the scheduler that
\* starts a cycle which goes on to its probe is taken when no cycle is in
\* flight.
InitSched ==
    /\ store = QueuedStore
    /\ storageOk = TRUE
    /\ remote = EarlierDocs
    /\ sched \in {[SchedOff EXCEPT !.currentState = a, !.unset = u] :
                     a \in {"active", "background"},
                     u \in SUBSET {"apiKey", "authDomain", "projectId", "appId"}}
    /\ configured = isFirebaseEnabled(sched.unset)
    /\ authUser = Null
    /\ signIn = SignInIdle
    /\ now = 1
    /\ nextId = 0
    /\ status = "idle"
    /\ obs = ObsNone
    /\ ds = DsIdle
    /\ cyc = [c \in CycleSlots |-> CycIdle]
    /\ last = NoReturn
    /\ passes = 0
    /\ newest = NewestQueued(getSyncQueue(store, TRUE))

NextSched ==
    \/ Scheduling /\ (Quiet \/ cyc' = cyc)
    \/ \E c \in CycleSlots : SyncStep(c)
    \/ Environment

SpecSched == InitSched /\ [][NextSched]_vars

\* A continuation of performSync whose awaited call has settled is run by
\* the event loop.
SpecSchedFair == SpecSched /\ \A c \in CycleSlots : WF_vars(SyncStep(c))

\* initializeSyncService, the cleanups it returned, startPeriodicSync and
\* stopPeriodicSync are called in any order while the application changes
\* state.
Lifecycle ==
    /\ \/ InitializeSyncService
       \/ InitializeAgain
       \/ CleanupSyncService
       \/ \E nextAppState \in AppStates : AppStateChange(nextAppState)
       \/ startPeriodicSync(sched)
       \/ stopPeriodicSync(sched)
       \/ TimerFires
    /\ UNCHANGED <<storageOk, configured, authUser, signIn, now, nextId, ds>>
    /\ Watch

NextLifecycle ==
    \/ Lifecycle /\ (Quiet \/ cyc' = cyc)
    \/ \E c \in CycleSlots : SyncStep(c)

SpecLifecycle == InitSched /\ [][NextLifecycle]_vars

\* The scheduler after initializeSyncService in the foreground.
SchedArmed ==
    [SchedOff EXCEPT !.syncIntervalId = TRUE, !.appStateSubscription = TRUE,
                     !.initialized = TRUE, !.timers = 1, !.cleanups = 1]

\* Replication is configured, the user signed in, one item queued and the
\* interval set.
InitTriggers ==
    /\ store = QueuedStore
    /\ storageOk = TRUE
    /\ remote = EarlierDocs
    /\ configured = isFirebaseEnabled(SchedOff.unset)
    /\ authUser = Some("u1")
    /\ signIn = SignInIdle
    /\ now = 1
    /\ nextId = 0
    /\ status = "idle"
    /\ obs = ObsNone
    /\ ds = DsIdle
    /\ cyc = [c \in CycleSlots |-> CycIdle]
    /\ last = NoReturn
    /\ passes = 0
    /\ newest = NewestQueued(getSyncQueue(store, TRUE))
    /\ sched = SchedArmed

Triggers ==
    /\ TimerFires \/ syncNow
    /\ UNCHANGED <<storageOk, configured, authUser, signIn, now, nextId, ds>>
    /\ Watch

\* The interval fires and syncNow is called whenever they may; the cycles
\* they start interleave at their awaits.
NextTriggers ==
    \/ Triggers
    \/ \E c \in CycleSlots : SyncStep(c)

SpecTriggers == InitTriggers /\ [][NextTriggers]_vars

\* processSyncItem replaying upsert items against the remote store, at
\* different times.
ReplayItems ==
    {SyncQueueItem("g0", "templates", "t1", "upsert",
                   Some([id |-> "t1", name |-> "A"]), 1),
     SyncQueueItem("g1", "templates", "t1", "upsert",
                   Some([id |-> "t1", name |-> "B"]), 2),
     SyncQueueItem("g2", "sessions", "s1", "upsert", Some(HeldSession), 1),
     SyncQueueItem("g3", "preferences", "u1", "upsert",
                   Some(DEFAULT_PREFERENCES), 1)}

InitReplay ==
    /\ store = EmptyStore
    /\ storageOk = TRUE
    /\ remote \in {EarlierDocs, [p \in {} |-> 0]}
    /\ configured = isFirebaseEnabled(SchedOff.unset)
    /\ authUser = Some("u1")
    /\ signIn = SignInIdle
    /\ now = 1
    /\ nextId = 0
    /\ status = "idle"
    /\ obs = ObsNone
    /\ ds = DsIdle
    /\ cyc = [c \in CycleSlots |-> CycIdle]
    /\ last = NoReturn
    /\ passes = 0
    /\ newest = NewestQueued(getSyncQueue(store, TRUE))
    /\ sched = SchedOff

\* The upsert branch of processSyncItem(item) up to its await of setDoc: the
\* user and Timestamp.now() are read and setDoc is called.  Two uploads can
\* be in flight, one in each slot of cyc.
ReplayUpsert(item) ==
    /\ \E c \in CycleSlots :
          /\ cyc[c].pc = "idle"
          /\ cyc' = [cyc EXCEPT ![c] = [CycIdle EXCEPT !.pc = "upload",
                                                       !.snap = <<item>>, !.idx = 1,
                                                       !.uid = authUser[1],
                                                       !.ts = now]]
    /\ UNCHANGED <<store, storageOk, remote, configured, authUser, signIn, now, nextId,
                   status, obs, ds, last, passes, newest, sched>>

\* The setDoc of the upload in slot c takes effect and processSyncItem
\* returns success.  last keeps the item, the remote store as it was before
\* (val) and how many times in a row the item has now been applied (enq, up
\* to 2).
ReplayApply(c) ==
    /\ cyc[c].pc = "upload"
    /\ LET item == cyc[c].snap[1]
       IN /\ remote' = uploadItem(remote, cyc[c].uid, item, cyc[c].ts)
          /\ last' = [NoReturn EXCEPT
                         !.who = "remote", !.op = "processSyncItem",
                         !.item = Some(item), !.val = Some(remote),
                         !.enq = IF last.who = "remote" /\ last.item = Some(item)
                                 THEN 2 ELSE 1]
    /\ cyc' = [cyc EXCEPT ![c] = CycIdle]
    /\ UNCHANGED <<store, storageOk, configured, authUser, signIn, now, nextId, status,
                   obs, ds, passes, newest, sched>>

\* Time passes.
Tick ==
    /\ now < MaxTime
    /\ now' = now + 1
    /\ UNCHANGED <<store, storageOk, remote, configured, authUser, signIn, nextId, status, obs,
                   ds, cyc, last, passes, newest,
                   sched>>

NextReplay ==
    \/ \E item \in ReplayItems : ReplayUpsert(item)
    \/ \E c \in CycleSlots : ReplayApply(c)
    \/ Tick

SpecReplay == InitReplay /\ [][NextReplay]_vars

\* The Record Store called directly, on a store whose slots may hold strings
\* that do not parse, while AsyncStorage fails now and then.
StoreInputs ==
    {EmptyStore, QueuedStore,
     [QueuedStore EXCEPT
        !["sessions"] =
           Some(SyncedData(<<[HeldSession EXCEPT !.completedAt = Some(1)]>>, 1))]} \cup
    {[QueuedStore EXCEPT ![k] = Unparsable] : k \in STORAGE_KEYS}

InitStore ==
    /\ store \in StoreInputs
    /\ storageOk \in BOOLEAN
    /\ remote = EarlierDocs
    /\ configured = isFirebaseEnabled(SchedOff.unset)
    /\ authUser = Null
    /\ signIn = SignInIdle
    /\ now = 1
    /\ nextId = 0
    /\ status = "idle"
    /\ obs = ObsNone
    /\ ds = DsIdle
    /\ cyc = [c \in CycleSlots |-> CycIdle]
    /\ last = NoReturn
    /\ passes = 0
    /\ newest = NewestQueued(getSyncQueue(store, TRUE))
    /\ sched = SchedOff

\* The slot each typed read accessor reads.
Getters ==
    [getUserId |-> "userId", getPreferences |-> "preferences",
     getTemplates |-> "templates", getSessions |-> "sessions",
     getCurrentSession |-> "currentSession", getSyncQueue |-> "syncQueue",
     getLastSyncTimestamp |-> "lastSyncTimestamp"]

\* A storage function has returned ret; failed tells whether its try block
\* threw.
StoreReturn(op, ret, failed) ==
    last' = [NoReturn EXCEPT !.who = "storage", !.op = op, !.ret = Some(ret),
                             !.failed = failed]

RecordStoreRead ==
    /\ \E op \in DOMAIN Getters :
         StoreReturn(op,
            CASE op = "getUserId" -> getUserId(store, storageOk)
              [] op = "getPreferences" -> getPreferences(store, storageOk, now)
              [] op = "getTemplates" -> getTemplates(store, storageOk, now)
              [] op = "getSessions" -> getSessions(store, storageOk, now)
              [] op = "getCurrentSession" -> getCurrentSession(store, storageOk)
              [] op = "getSyncQueue" -> getSyncQueue(store, storageOk)
              [] OTHER -> getLastSyncTimestamp(store, storageOk),
            readThrows(store, storageOk, Getters[op]))
    /\ UNCHANGED <<store, storageOk, remote, configured, authUser, signIn, now, nextId,
                   status, obs, ds, cyc, passes, newest,
                   sched>>

RecordStoreWrite ==
    /\ \/ /\ store' = setItem(store, storageOk, "userId", "u1")
          /\ StoreReturn("setUserId", setItemReturn(storageOk), ~storageOk)
       \/ /\ store' = setSyncQueue(store, storageOk, <<>>)
          /\ StoreReturn("setSyncQueue", setItemReturn(storageOk), ~storageOk)
       \/ /\ store' = removeItem(store, storageOk, "userId")
          /\ StoreReturn("clearUserId", removeItemReturn(storageOk), ~storageOk)
       \/ /\ store' = clearAllData(store, storageOk)
          /\ StoreReturn("clearAllData", clearAllDataReturn(storageOk), ~storageOk)
    /\ UNCHANGED <<storageOk, remote, configured, authUser, signIn, now, nextId,
                   status, obs, ds, cyc, passes, newest,
                   sched>>

\* storage.updateSession: it is called; its getSessions resolves and it
\* calls setSessions with the array it changed; setSessions resolves.
UpdateSession ==
    /\ \/ /\ ds.pc = "idle"
          /\ \E session \in {HeldSession,
                               [HeldSession EXCEPT !.completedAt = Some(1), !.logs = 1]} :
                ds' = DsStart("updateSession", "usRead", Some(session), "", "")
          /\ last' = NoReturn
          /\ UNCHANGED store
       \/ /\ ds.pc = "usRead"
          /\ LET current == getSessions(store, storageOk, now)
             IN ds' = [ds EXCEPT !.pc = "usWrite", !.ts = now,
                                 !.buf = updateSessionList(current.data, ds.val[1])]
          /\ last' = NoReturn
          /\ UNCHANGED store
       \/ /\ ds.pc = "usWrite"
          /\ store' = setSessions(store, storageOk, ds.buf, ds.ts)
          /\ ds' = DsIdle
          /\ StoreReturn("updateSession", setItemReturn(storageOk), ~storageOk)
    /\ UNCHANGED <<storageOk, remote, configured, authUser, signIn, now, nextId,
                   status, obs, cyc, passes, newest, sched>>

NextStore ==
    \/ RecordStoreRead
    \/ RecordStoreWrite
    \/ UpdateSession
    \/ Faults

SpecStore == InitStore /\ [][NextStore]_vars

------------------------------------------------------------------------------
(* Properties *)

\* The performSync call that returned in the last step.
Returned == last.op = "performSync"

\* The result of a skipped cycle, as the specification writes it.
ZeroSuccess ==
    [success |-> TRUE, itemsUploaded |-> 0, itemsDownloaded |-> 0, errors |-> <<>>]

\* The queue slot and the last-sync slot are as they were when the returned
\* performSync was called.
SlotsUntouched ==
    /\ store["syncQueue"] = last.queue0
    /\ store["lastSyncTimestamp"] = last.lastSync0

\* The returned performSync found the probe reporting not connected.
ProbedOffline ==
    /\ Returned
    /\ configured
    /\ last.probe # Null
    /\ ~last.probe[1].isConnected

\* C1: a performSync that runs with replication configured and the probe
\* reporting not connected issues no remote call, leaves the queue slot and
\* the last-sync slot as they were, returns {success: true, itemsUploaded: 0,
\* itemsDownloaded: 0, errors: []}, and the status after it is offline.
C1_OfflineSkip ==
    ProbedOffline =>
        /\ last.calls = 0
        /\ SlotsUntouched
        /\ last.res = Some(ZeroSuccess)
        /\ status = "offline"

\* C1 witness: a cycle skipped for connectivity has returned while an item
\* waits in the queue and a credential is present.
C1_Witness ==
    /\ ProbedOffline
    /\ last.reason = "No network connection"
    /\ authUser # Null
    /\ Len(getSyncQueue(store, TRUE)) > 0

\* What canSync requires, as the performSync with record r met it.
Gate(r) ==
    /\ configured
    /\ r.probe # Null
    /\ r.probe[1].isConnected
    /\ r.probe[1].currentUser # Null

\* The returned performSync found replication not configured.
NotConfigured == Returned /\ ~configured

\* The returned performSync found the network but no auth.currentUser.
NoCredential ==
    /\ Returned
    /\ configured
    /\ last.probe # Null
    /\ last.probe[1].isConnected
    /\ last.probe[1].currentUser = Null

\* C2: a cycle issues a remote call only if its preflight found replication
\* configured, the network available and a credential present.  A cycle that
\* found the configuration or the credential missing returns success with zero
\* counts and no errors, leaves the queue slot and the last-sync slot as they
\* were, and the status after it is idle; after a cycle whose preflight
\* refused, the status is offline exactly when connectivity was the cause.
C2_PreflightGate ==
    /\ \A c \in CycleSlots : cyc[c].calls > 0 => Gate(cyc[c])
    /\ (Returned /\ last.calls > 0) => Gate(last)
    /\ (NotConfigured \/ NoCredential) =>
          /\ last.calls = 0
          /\ last.res = Some(ZeroSuccess)
          /\ SlotsUntouched
          /\ status = "idle"
    /\ (Returned /\ ~Gate(last)) => (status = "offline" <=> ProbedOffline)

\* C2 witness: a cycle skipped for the missing credential has returned while
\* an item waits in the queue.
C2_Witness ==
    /\ NoCredential
    /\ last.reason = "User not authenticated"
    /\ Len(getSyncQueue(store, TRUE)) > 0

\* The queue as it was when the returned handler was called.
StartQueue == IF last.queue0 = Null THEN <<>> ELSE last.queue0[1]

\* The document carries every field of the payload.
Carries(doc, payload) ==
    \A f \in DOMAIN payload : f \in DOMAIN doc /\ doc[f] = payload[f]

\* The remote store holds a document at the item's path with its payload.
RemoteHolds(item) ==
    \E u \in Uids :
        LET path == docRef(u, item.collection, item.documentId)
        IN path \in DOMAIN remote /\ Carries(remote[path], item.data[1])

\* Items a and b address the same remote document.
SamePath(a, b) ==
    \A u \in Uids : getDocPath(u, a.collection, a.documentId) =
                     getDocPath(u, b.collection, b.documentId)

\* C3 as stated: after a cycle that passed preflight and in which every
\* upload and query succeeded (handlers running one after another, so nothing
\* is enqueued meanwhile) the queue is empty, itemsUploaded is the queue
\* length at the start, and the remote store holds every upsert item's
\* payload at its path.
C3_AsStated ==
    (Returned /\ Gate(last) /\ last.res[1].errors = <<>>) =>
        /\ getSyncQueue(store, TRUE) = <<>>
        /\ last.res[1].itemsUploaded = Len(StartQueue)
        /\ \A i \in 1..Len(StartQueue) :
              StartQueue[i].action = "upsert" => RemoteHolds(StartQueue[i])

\* C3 amended: after a cycle that passed preflight and returned no error (no
\* remote call was rejected and auth.currentUser was present at every item)
\* the queue is empty, itemsUploaded is the queue length at the start, and the
\* remote store holds the payload of every upsert item that no later item of
\* the queue addressed to the same document.
C3_AllSucceed ==
    (Returned /\ Gate(last) /\ last.res[1].errors = <<>>) =>
        /\ getSyncQueue(store, TRUE) = <<>>
        /\ last.res[1].itemsUploaded = Len(StartQueue)
        /\ \A i \in 1..Len(StartQueue) :
              (/\ StartQueue[i].action = "upsert"
               /\ \A j \in (i + 1)..Len(StartQueue) :
                      ~SamePath(StartQueue[i], StartQueue[j]))
              => RemoteHolds(StartQueue[i])

\* C3 witness: an error-free cycle has returned that started with two queued
\* items for different documents, the first an upsert now held remotely.
C3_Witness ==
    /\ Returned /\ Gate(last) /\ last.res[1].errors = <<>>
    /\ Len(StartQueue) = 2
    /\ StartQueue[1].action = "upsert"
    /\ ~SamePath(StartQueue[1], StartQueue[2])
    /\ RemoteHolds(StartQueue[1])
    /\ getSyncQueue(store, TRUE) = <<>>

\* The persisted queue.
Queue == getSyncQueue(store, TRUE)

\* The error the returned cycle reported for the i-th item of its snapshot,
\* a failed one: processQueue pushes one error per failed item, in order.
ErrorOf(i) ==
    last.res[1].errors[Cardinality({m \in 1..i : ~last.outcomes[m]})]

Names(error, item) ==
    /\ error.collection = item.collection
    /\ error.documentId = item.documentId

\* C4: with cycles running one after another, the persisted retryCount of a
\* queued item is, between cycles, the number of cycles that failed it
\* (counted for the watched item by passes), and it never reaches 5.  After the cycle that fails an
\* item for the k-th time, k = 1..4, the item is in the queue with persisted
\* retryCount k and the result reports it with retryable: true; after the
\* cycle that fails it for the 5th time the item is absent from the queue and
\* the result reports it with retryable: false.
C4_RetryCeiling ==
    /\ \A n \in 1..Len(Queue) : Queue[n].retryCount \in 0..(MAX_RETRY_COUNT - 1)
    /\ (\A c \in CycleSlots : cyc[c].pc = "idle") =>
          \A n \in 1..Len(Queue) :
             Queue[n].id = WatchedId => Queue[n].retryCount = passes
    /\ (Returned /\ Gate(last)) =>
          \A i \in 1..Len(last.snap) :
             ~last.outcomes[i] =>
                LET item == last.snap[i]
                    k == item.retryCount + 1
                IN /\ Names(ErrorOf(i), item)
                   /\ k \in 1..4 =>
                         /\ ErrorOf(i).retryable
                         /\ \E n \in 1..Len(Queue) :
                               /\ Queue[n].id = item.id
                               /\ Queue[n].retryCount = k
                   /\ k = 5 =>
                         /\ ~ErrorOf(i).retryable
                         /\ item.id \notin Ids(Queue)
                   /\ k <= 5

\* C4 witness: the cycle that failed the watched item for the 5th time has
\* returned: the item had been persisted with retryCount 4 and is gone.
C4_Witness ==
    /\ Returned /\ Gate(last)
    /\ \E i \in 1..Len(last.snap) :
          /\ last.snap[i].id = WatchedId
          /\ last.snap[i].retryCount = 4
          /\ ~last.outcomes[i]
          /\ ~ErrorOf(i).retryable
    /\ WatchedId \notin Ids(Queue)
    /\ status = "error"

\* The step is the setSyncQueue of removeFromSyncQueue in cycle c, called for
\* the item with this id after its upload succeeded or after its failure
\* count reached the ceiling and the non-retryable error was pushed.
ConfirmedRemoval(c, id) ==
    LET me == cyc[c]
        item == me.snap[me.idx]
    IN /\ me.pc = "rmWrite"
       /\ cyc'[c] # me
       /\ item.id = id
       /\ \/ me.itemOk
          \/ /\ item.retryCount + 1 >= 5
             /\ Len(me.errors) > 0
             /\ Names(me.errors[Len(me.errors)], item)
             /\ ~me.errors[Len(me.errors)].retryable

\* C5: an item leaves the persisted queue only in the removal that follows
\* its confirmed upload or its fifth failure with the non-retryable error
\* reported; no step drops an item otherwise.  (Checked where no
\* clearUserData is called.)
C5_NoSilentDrop ==
    [][\A id \in Ids(Queue) \ Ids(Queue') :
          \E c \in CycleSlots : ConfirmedRemoval(c, id)]_vars

\* C6: an item enqueued before any cycle ran leaves the queue within 5 cycles
\* that pass preflight: once 5 such cycles have read the watched item and
\* returned, the item is not in the queue.
C6_GoneWithinFive ==
    WatchedId \in Ids(Queue) => passes < 5

\* The session history holds the session with its completion marker set.
InHistory(id) ==
    LET history == getSessions(store, TRUE, now).data
    IN \E i \in 1..Len(history) :
          history[i].id = id /\ history[i].completedAt # Null

\* completeSession has returned, called with the session that was in the
\* current-session slot.
CompletedCurrent ==
    /\ last.who = "ds"
    /\ last.op = "completeSession"
    /\ last.slot0 # Null
    /\ last.slot0[1].id = last.val[1].id

\* C7: once completeSession(session) has returned for the session in progress,
\* either the session is in the session history with completedAt set and the
\* current-session slot is empty, or neither holds, also when a Record Store
\* write failed.
C7_CompleteAtomic ==
    CompletedCurrent =>
        (InHistory(last.val[1].id) <=> store["currentSession"] = Null)

\* The local sessions and templates.
Sessions == getSessions(store, TRUE, now).data
Templates == getTemplates(store, TRUE, now).data

\* Cycle c is in its download phase (pullRemoteChanges).
Downloading(c) ==
    cyc[c].pc \in {"tsRead", "getSessions", "sesRead", "sesWrite",
                   "getTemplates", "tplRead", "tplWrite"}

\* Every record of the array before is in the array after, unchanged.
Kept(before, after) ==
    /\ Len(after) >= Len(before)
    /\ \A i \in 1..Len(before) : after[i] = before[i]

\* C8: no step of the download phase changes a session or template that is
\* present locally, whatever the remote document with the same id holds.
C8_LocalWins ==
    [][(\E c \in CycleSlots : Downloading(c) /\ cyc'[c] # cyc[c]) =>
          /\ Kept(Sessions, Sessions')
          /\ Kept(Templates, Templates')]_vars

\* C8 witness: the download phase is about to store the templates it merged;
\* the query returned a document whose id a local template has too, with
\* other content, next to a document that is new.
C8_Witness ==
    \E c \in CycleSlots :
        /\ cyc[c].pc = "tplWrite"
        /\ \E i \in 1..Len(cyc[c].pulled), n \in 1..Len(Templates) :
              /\ cyc[c].pulled[i].id = Templates[n].id
              /\ stripMeta(cyc[c].pulled[i].data) # Templates[n]
        /\ Len(cyc[c].buf) > Len(Templates)

\* The calls the specification names as mutating.
MutatingCalls ==
    {"savePreferences", "saveTemplate", "deleteTemplate", "startSession",
     "updateCurrentSession", "completeSession", "discardCurrentSession"}

\* The Record Store holds what the call op committed: val is its payload and
\* item the queue item it built, if any.
Committed(op, val, item) ==
    CASE op = "savePreferences" -> getPreferences(store, TRUE, now).data = val[1]
      [] op = "saveTemplate" ->
            \E n \in 1..Len(Templates) : Templates[n] = val[1]
      [] op = "deleteTemplate" ->
            item # Null /\ item[1].documentId \notin Ids(Templates)
      [] op = "completeSession" ->
            /\ \E n \in 1..Len(Sessions) : Sessions[n] = val[1]
            /\ store["currentSession"] = Null
      [] op \in {"startSession", "updateCurrentSession"} ->
            store["currentSession"] = val
      [] op = "discardCurrentSession" -> store["currentSession"] = Null
      [] OTHER -> TRUE

\* The returned call appended exactly one item to the tail of the queue, with
\* retryCount 0 and the committed payload as data (none for a delete).
AppendedOne ==
    /\ last.enq = 1
    /\ last.item # Null
    /\ Queue = Append(StartQueue, last.item[1])
    /\ last.item[1].retryCount = 0
    /\ \/ last.item[1].action = "upsert" /\ last.item[1].data = last.val
       \/ last.item[1].action = "delete" /\ last.item[1].data = Null

\* C9: each of the seven mutating calls has, when it returns, committed its
\* value to the Record Store and appended exactly one item to the tail of
\* the queue, with retryCount 0 and the committed payload as data.  It does
\* not hold: startSession, updateCurrentSession and discardCurrentSession
\* commit to the current-session slot and return without calling
\* queueForSync, and savePreferences calls it only when a user id is stored.
C9_AsStated ==
    (last.who = "ds" /\ last.op \in MutatingCalls) =>
        /\ Committed(last.op, last.val, last.item)
        /\ AppendedOne

\* The storage function that returned in the last step.
StoreReturned == last.who = "storage"

\* What each read accessor returns when there is nothing to read.
IsDefault(op, ret) ==
    CASE op \in {"getUserId", "getCurrentSession"} -> ret = Null
      [] op = "getSyncQueue" -> ret = <<>>
      [] op \in {"getSessions", "getTemplates"} ->
            ret.data = <<>> /\ ret.syncedAt = Null
      [] op = "getPreferences" ->
            ret.data = DEFAULT_PREFERENCES /\ ret.syncedAt = Null
      [] op = "getLastSyncTimestamp" -> ret = 0
      [] OTHER -> FALSE

\* C11: every Record Store function returns a value to its caller.  When the
\* AsyncStorage call or JSON.parse throws, getUserId and getCurrentSession
\* (getItem itself) return null, getSyncQueue returns [], getSessions and
\* getTemplates return an empty array (wrapped, never synced), getPreferences
\* the default preferences, getLastSyncTimestamp 0, and the functions built
\* on setItem, removeItem and clearAllData return false and leave the store
\* as it was.
C11_NeverThrows ==
    StoreReturned =>
        /\ last.ret # Null
        /\ last.failed =>
              IF last.op \in DOMAIN Getters
              THEN IsDefault(last.op, last.ret[1])
              ELSE last.ret = Some(FALSE)

\* C11 witness: getSyncQueue has returned [] from a slot that holds a string
\* JSON.parse rejects, while AsyncStorage itself works.
C11_Witness ==
    /\ StoreReturned
    /\ last.op = "getSyncQueue"
    /\ last.failed
    /\ storageOk
    /\ store["syncQueue"] = Unparsable
    /\ last.ret = Some(<<>>)

\* What each mutating call returns when every write committed: the template
\* with its id, the session, or nothing.
ReturnWhenCommitted(op, val) ==
    IF op \in {"saveTemplate", "startSession", "completeSession"} THEN val ELSE Null

\* C12: a mutating Data Service call in which a Record Store write returned
\* false returns to its caller something other than what it returns when
\* every write committed.
C12_FailureReported ==
    (last.who = "ds" /\ last.op \in MutatingCalls /\ last.failed) =>
        last.ret # ReturnWhenCommitted(last.op, last.val)

\* Item a stands before item b in the queue.
Before(queue, a, b) ==
    \E i, j \in 1..Len(queue) : i < j /\ queue[i].id = a /\ queue[j].id = b

\* Items that are in both queues stand in the same order in both.
OrderKept(before, after) ==
    \A a, b \in Ids(before) \cap Ids(after) :
        Before(before, a, b) => Before(after, a, b)

\* Cycle c is in its upload phase, at an item of its snapshot.
Uploading(c) ==
    cyc[c].pc \in {"upload", "rmRead", "rmWrite", "updRead", "updWrite"}

\* C13: the queue is FIFO.  No step changes the relative order of two items
\* that stay queued; the write of addToSyncQueue stores the queue it read
\* with the new item as its last element; the write of removeFromSyncQueue
\* stores the queue it read without the removed item and the write of
\* updateSyncQueueItem stores the queue it read with the same items at the
\* same places; and a cycle takes as its snapshot the queue it reads at its
\* start, keeps it, and moves through it one item at a time from the first
\* to the last, recording one outcome per item, so that a cycle that passed
\* preflight returns with exactly one outcome for each item of the snapshot.
C13_Fifo ==
    /\ [](\A c \in CycleSlots :
             Uploading(c) =>
                /\ cyc[c].idx \in 1..Len(cyc[c].snap)
                /\ Len(cyc[c].outcomes) =
                      IF cyc[c].pc = "upload" THEN cyc[c].idx - 1 ELSE cyc[c].idx)
    /\ []((Returned /\ last.reason = "") => Len(last.outcomes) = Len(last.snap))
    /\ [][/\ OrderKept(Queue, Queue')
          /\ (ds.pc = "qWrite" /\ ds' # ds) =>
                /\ Queue' = ds.buf
                /\ Queue'[Len(Queue')] = ds.item[1]
                /\ \A i \in 1..(Len(Queue') - 1) : Queue'[i].id # ds.item[1].id
          /\ \A c \in CycleSlots :
                /\ (cyc[c].pc = "queueRead" /\ cyc'[c] # cyc[c] /\ Queue # <<>>) =>
                       /\ cyc'[c].snap = Queue
                       /\ cyc'[c].idx = 1
                /\ (Uploading(c) /\ cyc'[c].pc # "idle") =>
                       /\ cyc'[c].snap = cyc[c].snap
                       /\ cyc'[c].idx \in {cyc[c].idx, cyc[c].idx + 1}
                /\ (cyc[c].pc = "rmRead" /\ cyc'[c] # cyc[c]) =>
                       cyc'[c].buf = SelectSeq(Queue,
                           LAMBDA item : item.id # cyc[c].snap[cyc[c].idx].id)
                /\ (cyc[c].pc = "updRead" /\ cyc'[c].pc = "updWrite") =>
                       /\ Len(cyc'[c].buf) = Len(Queue)
                       /\ \A i \in 1..Len(Queue) :
                             cyc'[c].buf[i].id = Queue[i].id
                /\ (cyc[c].pc \in {"rmWrite", "updWrite"} /\ cyc'[c] # cyc[c]) =>
                       Queue' = cyc[c].buf
         ]_vars

\* C13 witness: a cycle has returned that took two queued items as its
\* snapshot and failed both; both are still queued, in the same order, with
\* their retry counts raised.
C13_Witness ==
    /\ Returned
    /\ Len(last.snap) = 2
    /\ last.outcomes = <<FALSE, FALSE>>
    /\ Len(Queue) = 2
    /\ \A i \in 1..2 : /\ Queue[i].id = last.snap[i].id
                       /\ Queue[i].retryCount = last.snap[i].retryCount + 1

\* Cycle c has left processQueue: it is in pullRemoteChanges or at the
\* setLastSyncTimestamp that follows it.
UploadsOver(c) == Downloading(c) \/ cyc[c].pc = "tsWrite"

\* C14: while a cycle is in its download phase (from before its first getDocs
\* to its return) every item of its snapshot has its outcome recorded and no
\* queue write of the cycle is pending; a getDocs of the cycle is issued only
\* then, and no step takes the cycle from there back to an upload, a
\* removeFromSyncQueue or an updateSyncQueueItem.
C14_UploadsFirst ==
    /\ [](\A c \in CycleSlots :
             UploadsOver(c) =>
                /\ Len(cyc[c].outcomes) = Len(cyc[c].snap)
                /\ cyc[c].idx = Len(cyc[c].snap)
                /\ cyc[c].pc \in {"tsRead", "getSessions"} => cyc[c].buf = <<>>)
    /\ [][\A c \in CycleSlots :
             /\ UploadsOver(c) => ~Uploading(c)'
             /\ (cyc'[c].calls > cyc[c].calls /\ ~Uploading(c)) =>
                    /\ cyc[c].pc \in {"getSessions", "getTemplates"}
                    /\ Len(cyc[c].outcomes) = Len(cyc[c].snap)
         ]_vars

\* C14 witness: a cycle is about to issue its first getDocs after attempting
\* both items of its snapshot, one uploaded and removed from the queue, the
\* other failed and kept with its retry count raised.
C14_Witness ==
    \E c \in CycleSlots :
        /\ cyc[c].pc = "getSessions"
        /\ cyc[c].outcomes = <<TRUE, FALSE>>
        /\ cyc[c].calls = 2
        /\ Ids(Queue) = {cyc[c].snap[2].id}
        /\ Queue[1].retryCount = cyc[c].snap[2].retryCount + 1

\* Cycle c has passed preflight and has not returned.
InFlight(c) == cyc[c].pc \notin {"idle", "netinfo"}

\* C15: at most one performSync is past its preflight at any time.
C15_OneCycle ==
    Cardinality({c \in CycleSlots : InFlight(c)}) <= 1

\* handleAppStateChange is registered: initializeSyncService ran with
\* replication configured and its cleanup has not been called.
Subscribed == sched.appStateSubscription

\* The step starts exactly one performSync.
StartsOneCycle ==
    Cardinality({c \in CycleSlots :
                    /\ cyc[c].pc = "idle"
                    /\ cyc'[c].pc = "netinfo"
                    /\ cyc'[c].queue0 = store["syncQueue"]}) = 1

\* C16: the interval is set only while handleAppStateChange is registered
\* and the application is active, and while it is registered the interval is
\* set exactly when the application is active.  A change to background or
\* inactive clears the interval and leaves the Record Store, the queue with
\* it, as it was; a change back to active sets the interval and starts
\* exactly one performSync in the same step.
C16_ForegroundTimer ==
    /\ [](sched.syncIntervalId => (Subscribed /\ sched.currentState = "active"))
    /\ [](Subscribed => (sched.syncIntervalId <=> sched.currentState = "active"))
    /\ [](Subscribed => configured)
    /\ [][(Subscribed /\ sched'.currentState # sched.currentState) =>
             IF sched'.currentState = "active"
             THEN /\ sched'.syncIntervalId
                  /\ StartsOneCycle
                  /\ store' = store
             ELSE /\ ~sched'.syncIntervalId
                  /\ store' = store
                  /\ cyc' = cyc
         ]_vars

\* C16 witness: the application is in the background with the listener
\* registered and the interval cleared, after a cycle that ran in the
\* foreground failed the queued item, which is still queued.
C16_Witness ==
    /\ Subscribed
    /\ sched.currentState = "background"
    /\ ~sched.syncIntervalId
    /\ Len(Queue) = 1
    /\ Queue[1].retryCount = 1
    /\ store["lastSyncTimestamp"] # Null

\* The stored last-sync timestamp, 0 when there is none.
LastSync == getLastSyncTimestamp(store, TRUE)

\* C17: with handlers running one after another, a cycle that passed
\* preflight takes Date.now() when its download phase is over and has stored
\* it as the last-sync timestamp when it returns, whatever errors it
\* reports; a cycle skipped at preflight leaves the slot as it was when it
\* was called; and no step other than clearAllData lowers the stored
\* timestamp.
C17_Timestamp ==
    /\ []((Returned /\ last.reason = "") => store["lastSyncTimestamp"] = Some(now))
    /\ []((Returned /\ last.reason # "") =>
             store["lastSyncTimestamp"] = last.lastSync0)
    /\ [][/\ \A c \in CycleSlots :
                /\ (cyc[c].pc # "tsWrite" /\ cyc'[c].pc = "tsWrite") =>
                       cyc'[c].ts = now
                /\ (cyc[c].pc = "tsWrite" /\ cyc'[c] # cyc[c]) =>
                       /\ store'["lastSyncTimestamp"] = Some(cyc[c].ts)
                       /\ last'.op = "performSync"
          /\ \/ ds.pc = "clear" /\ ds' # ds
             \/ getLastSyncTimestamp(store', TRUE) >= LastSync
         ]_vars

\* C17 witness: a cycle has returned with a failed upload reported and has
\* moved the last-sync timestamp from 1 to 2.
C17_Witness ==
    /\ Returned
    /\ last.reason = ""
    /\ Len(last.res[1].errors) > 0
    /\ ~last.res[1].success
    /\ last.lastSync0 = Some(1)
    /\ store["lastSyncTimestamp"] = Some(2)

\* The upsert that was applied in the last step had been applied in the step
\* before too, some time earlier or at the same time.
ReplayedTwice == last.who = "remote" /\ last.enq = 2

\* The remote store after the item was applied once.
AfterOnce == last.val[1]

\* The document the replayed item addresses.
ReplayedPath ==
    docRef(authUser[1], last.item[1].collection, last.item[1].documentId)

\* C18 as stated: after the same upsert item has been applied to the remote
\* store twice, the remote store is as it was after the first application.
C18_AsStated ==
    ReplayedTwice => remote = AfterOnce

\* C18 amended: after the same upsert item has been applied twice, the remote
\* store holds the same documents as after the first application, every
\* other document unchanged, and the item's document with the same fields and
\* the same values in all of them except _syncedAt, which is the time the
\* upload applied last read when it called setDoc, never later than now.
C18_ReplayIdempotent ==
    ReplayedTwice =>
        /\ DOMAIN remote = DOMAIN AfterOnce
        /\ \A p \in DOMAIN remote :
              /\ DOMAIN remote[p] = DOMAIN AfterOnce[p]
              /\ \A f \in DOMAIN remote[p] :
                    (p # ReplayedPath \/ f # "_syncedAt") =>
                        remote[p][f] = AfterOnce[p][f]
        /\ remote[ReplayedPath]._syncedAt \in 1..now
        /\ Carries(remote[ReplayedPath], last.item[1].data[1])

\* C18 witness: a templates upsert has been applied a second time, by an
\* upload issued later than the first, onto a document that existed before
\* with other fields; the two remote states differ.
C18_Witness ==
    /\ ReplayedTwice
    /\ last.item[1].collection = "templates"
    /\ "notes" \in DOMAIN remote[ReplayedPath]
    /\ AfterOnce[ReplayedPath]._syncedAt < remote[ReplayedPath]._syncedAt
    /\ remote # AfterOnce

\* A key that validateConfig requires has no value.
LocalOnly == sched.unset \cap {"apiKey", "projectId", "appId"} # {}

\* C19: when the API key, the project identifier or the application
\* identifier is missing, replication is not configured; initializeSyncService
\* can be called and returns having set no interval and registered no
\* listener; no performSync is ever past its first check or issues a remote
\* call, so the remote store and the Record Store, the queue with it, stay as
\* they were; every performSync that returns was skipped for the
\* configuration with success, zero counts and no errors; and the status is
\* idle throughout.
C19_LocalOnly ==
    LocalOnly =>
        /\ ~configured
        /\ ~sched.syncIntervalId
        /\ ~sched.appStateSubscription
        /\ ENABLED InitializeSyncService \/ sched.initialized
        /\ \A c \in CycleSlots : cyc[c] = CycIdle
        /\ remote = EarlierDocs
        /\ store = QueuedStore
        /\ status = "idle"
        /\ Returned =>
              /\ last.reason = "Firebase not configured"
              /\ last.res = Some(ZeroSuccess)
              /\ last.calls = 0
              /\ SlotsUntouched

\* C19 witness: only the project identifier is missing;
\* initializeSyncService has run in the foreground and a syncNow has
\* returned, skipped, with the queued item still waiting.
C19_Witness ==
    /\ sched.unset = {"projectId"}
    /\ sched.initialized
    /\ sched.currentState = "active"
    /\ Returned
    /\ last.who = "syncNow"
    /\ last.res = Some(ZeroSuccess)
    /\ Len(Queue) = 1

\* Every record of the array before whose id is not among ids is in the
\* array after, unchanged.
KeptBut(before, after, ids) ==
    \A i \in 1..Len(before) :
        before[i].id \notin ids =>
            \E j \in 1..Len(after) : after[j] = before[i]

\* C20: with Data Service calls and a cycle interleaving at their awaits,
\* the write of the download phase leaves every local session and template
\* in its slot as it was (it only adds records), and the write of addSession,
\* addTemplate, updateTemplate or deleteTemplate leaves in the slot every
\* record other than the one the call stores or deletes, so that neither
\* side loses what the other wrote.
C20_BothKept ==
    [][/\ \A c \in CycleSlots :
            (cyc[c].pc \in {"sesWrite", "tplWrite"} /\ cyc'[c] # cyc[c]) =>
                /\ KeptBut(Sessions, Sessions', {})
                /\ KeptBut(Templates, Templates', {})
       /\ (ds.pc = "sesWrite" /\ ds' # ds) =>
             /\ KeptBut(Sessions, Sessions', {})
             /\ \E j \in 1..Len(Sessions') : Sessions'[j] = ds.val[1]
       /\ (ds.pc = "tplWrite" /\ ds' # ds) =>
             KeptBut(Templates, Templates',
                     {IF ds.op = "saveTemplate" THEN ds.val[1].id ELSE ds.docId})
      ]_vars

\* No queued item addresses the watched document.
WatchedLeft == \A n \in 1..Len(Queue) : ~WatchedDoc(Queue[n])

\* The remote store is as the item left it: its payload at its path, or no
\* document there after a delete.
Reflects(item) ==
    IF item.action = "upsert" THEN RemoteHolds(item)
    ELSE \A u \in Uids :
            docRef(u, item.collection, item.documentId) \notin DOMAIN remote

\* C21: with handlers running one after another, once every item enqueued for
\* the watched document has left the queue, the remote document is as the
\* item enqueued last left it, also when an earlier item failed and was
\* retried in a later cycle than a later item.
C21_LastWins ==
    (Quiet /\ newest # Null /\ WatchedLeft) => Reflects(newest[1])

\* The step is the preflight of cycle c letting the cycle through.
Passed(c) == cyc[c].pc = "netinfo" /\ cyc'[c].pc = "queueRead"

\* The step is performSync c returning because canSync refused.
Skipped(c) ==
    /\ cyc[c].pc \in {"idle", "netinfo"}
    /\ cyc'[c].pc = "idle"
    /\ last'.op = "performSync"
    /\ last'.who = c
    /\ last'.reason # ""

\* The step is the return of cycle c, which had passed preflight.
Ended(c) == cyc[c].pc = "tsWrite" /\ cyc'[c].pc = "idle"

\* C22 as stated: the status starts as idle and changes only along
\* idle -> syncing, syncing -> idle, syncing -> error, idle -> offline and
\* syncing -> offline, and to syncing only when a cycle passes preflight.
C22_AsStated ==
    /\ status = "idle"
    /\ [][status' # status =>
            /\ <<status, status'>> \in
                  {<<"idle", "syncing">>, <<"syncing", "idle">>,
                   <<"syncing", "error">>, <<"idle", "offline">>,
                   <<"syncing", "offline">>}
            /\ status' = "syncing" => \E c \in CycleSlots : Passed(c)
         ]_vars

\* C22 amended: the status starts as idle, is one of the four values, and
\* changes only at three points of performSync, from whatever value it has,
\* error and offline included: to syncing when a cycle passes preflight, to
\* offline when a cycle is skipped for want of connectivity and to idle when
\* it is skipped for another reason, and to idle or error when a cycle that
\* passed preflight returns.
C22_Transitions ==
    /\ status = "idle"
    /\ [](status \in {"idle", "syncing", "error", "offline"})
    /\ [][status' # status =>
            CASE status' = "syncing" -> \E c \in CycleSlots : Passed(c)
              [] status' = "offline" ->
                    \E c \in CycleSlots :
                        Skipped(c) /\ last'.reason = "No network connection"
              [] status' = "error" -> \E c \in CycleSlots : Ended(c)
              [] OTHER ->
                    \E c \in CycleSlots :
                        \/ Ended(c)
                        \/ Skipped(c) /\ last'.reason # "No network connection"
         ]_vars

\* C22 witness: the cycle before dropped an item at the retry ceiling and left
\* the status error; the next cycle is at its preflight, and whichever way
\* canSync answers the status leaves error.
C22_Witness ==
    /\ status = "error"
    /\ configured
    /\ authUser # Null
    /\ \E c \in CycleSlots : cyc[c].pc = "netinfo"

\* The step is the setSyncQueue of removeFromSyncQueue or updateSyncQueueItem
\* in cycle c.
EngineQueueWrite(c) == cyc[c].pc \in {"rmWrite", "updWrite"} /\ cyc'[c] # cyc[c]

\* The step is the setSyncQueue of addToSyncQueue.
EnqueueWrite == ds.pc = "qWrite" /\ ds' # ds

\* A queue write of the engine keeps every queued item but the one it
\* removes: an item enqueued since the engine read the queue is not lost.
EnqueuedKept ==
    \A c \in CycleSlots :
        EngineQueueWrite(c) =>
            Ids(Queue) \ {cyc[c].snap[cyc[c].idx].id} \subseteq Ids(Queue')

\* The queue write of an enqueue adds its own item and no other: an item
\* removed since addToSyncQueue read the queue is not put back.
RemovedStaysOut ==
    EnqueueWrite => Ids(Queue') \subseteq Ids(Queue) \cup {ds.item[1].id}

\* C23: however addToSyncQueue interleaves with removeFromSyncQueue and
\* updateSyncQueueItem, an item enqueued while a cycle is in flight is not
\* lost, and an item the cycle removed is not put back by the enqueue.
C23_NoLostUpdate == [][EnqueuedKept /\ RemovedStaysOut]_vars

\* The step is the sessions getDocs of cycle c being rejected: the cycle
\* reports one more error and has no snapshot to merge.
SessionsQueryFails(c) ==
    /\ cyc[c].pc = "getSessions"
    /\ cyc'[c] # cyc[c]
    /\ Len(cyc'[c].errors) = Len(cyc[c].errors) + 1

\* C24: when the sessions query of a cycle fails, the failure is reported as
\* retryable and the cycle goes on to query the templates, in the same
\* download phase.
C24_DownloadGoesOn ==
    [][\A c \in CycleSlots :
          SessionsQueryFails(c) =>
             /\ cyc'[c].errors[Len(cyc'[c].errors)].retryable
             /\ cyc'[c].pc = "getTemplates"]_vars

\* The collections queue items are enqueued for.
SyncableCollections == {"preferences", "templates", "sessions"}

LocalList(s, coll) ==
    IF coll = "sessions" THEN getSessions(s, TRUE, now).data
    ELSE getTemplates(s, TRUE, now).data

\* The documents of the snapshot cycle c holds whose id is not in list.
NewDocs(c, list) ==
    {i \in 1..Len(cyc[c].pulled) : cyc[c].pulled[i].id \notin Ids(list)}

\* Cycle c reads the watermark it queries with, gets from each query the
\* documents stamped after it, counts those whose id is not present locally
\* and stores them, without the two stamps, after the records already there.
DownloadInserts(c) ==
    /\ (cyc[c].pc = "tsRead" /\ cyc'[c] # cyc[c]) => cyc'[c].lastSync = LastSync
    /\ \A coll \in {"sessions", "templates"} :
          /\ (cyc[c].pc = PullPc(coll) /\ cyc'[c].pc = ListReadPc(coll)) =>
                {cyc'[c].pulled[i].id : i \in 1..Len(cyc'[c].pulled)} =
                   {p[4] : p \in {q \in DOMAIN remote :
                                    /\ q[2] = cyc[c].uid
                                    /\ q[3] = coll
                                    /\ remote[q]._lastModified > cyc[c].lastSync}}
          /\ (cyc[c].pc = ListReadPc(coll) /\ cyc'[c] # cyc[c]) =>
                cyc'[c].downloaded = cyc[c].downloaded +
                   Cardinality(NewDocs(c, LocalList(store, coll)))
          /\ (cyc[c].pc = ListWritePc(coll) /\ cyc'[c] # cyc[c]) =>
                LET before == LocalList(store, coll)
                    after == LocalList(store', coll)
                IN /\ Kept(before, after)
                   /\ Len(after) = Len(before) + Cardinality(NewDocs(c, before))
                   /\ \A n \in (Len(before) + 1)..Len(after) :
                         \E i \in NewDocs(c, before) :
                            after[n] = stripMeta(cyc[c].pulled[i].data)

\* The step ends the download phase of cycle c with no error, and the cycle
\* had nothing to upload: the calls it issued are its queries.
QueriesOnly(c) ==
    /\ Downloading(c)
    /\ cyc'[c].pc = "tsWrite"
    /\ cyc'[c].errors = <<>>
    /\ cyc[c].snap = <<>>

\* C25: with handlers running one after another, the download phase of a
\* cycle queries each of the three syncable collections for the documents
\* stamped after the last-sync timestamp it read, inserts the returned
\* documents whose id is not present locally without their stamps, and
\* counts them in itemsDownloaded.
C25_Download ==
    [][\A c \in CycleSlots :
          /\ DownloadInserts(c)
          /\ QueriesOnly(c) => cyc'[c].calls = Cardinality(SyncableCollections)
      ]_vars

\* The returned cycle reported a failed download query.
DownloadFailed ==
    \E i \in 1..Len(last.res[1].errors) : last.res[1].errors[i].documentId = "*"

\* The remote document at path p is absent locally and is not stamped after
\* the stored last-sync timestamp.
BehindWatermark(p) ==
    /\ p[3] \in {"sessions", "templates"}
    /\ p[4] \notin Ids(LocalList(store, p[3]))
    /\ remote[p]._lastModified <= LastSync

\* C26: with handlers running one after another, a cycle that passed
\* preflight and reported a failed download query has still moved the
\* last-sync timestamp to the time of its end; and a remote document that is
\* absent locally and not stamped after the stored timestamp is not inserted
\* by any step of a cycle.
C26_SkippedAfterwards ==
    /\ []((Returned /\ last.reason = "" /\ DownloadFailed) =>
             store["lastSyncTimestamp"] = Some(now))
    /\ [][\A p \in DOMAIN remote :
             (BehindWatermark(p) /\ cyc' # cyc) =>
                p[4] \notin Ids(LocalList(store', p[3]))]_vars

\* C26 witness: a cycle ran after the watermark had been moved to the stamp
\* of the remote template t2, issued both queries with success and
\* downloaded nothing, and t2 is still absent locally.
C26_Witness ==
    /\ Returned
    /\ last.reason = ""
    /\ last.lastSync0 = Some(1)
    /\ last.snap = <<>>
    /\ last.calls = 2
    /\ last.res[1].errors = <<>>
    /\ last.res[1].itemsDownloaded = 0
    /\ BehindWatermark(<<"users", "u1", "templates", "t2">>)

\* The returned cycle gave an item up: the item had failed four times when
\* the cycle read it, its upload failed again and it is no longer queued.
DroppedAtCeiling ==
    \E i \in 1..Len(last.snap) :
        /\ last.snap[i].retryCount + 1 >= MAX_RETRY_COUNT
        /\ ~last.outcomes[i]
        /\ last.snap[i].id \notin Ids(Queue)

\* C27: with cycles running one after another, when a cycle that passed
\* preflight has returned the status is error if an item was dropped at the
\* retry ceiling in that cycle and idle if none was, retryable errors or
\* not; success is true exactly when the errors list is empty; and the
\* return of a cycle leaves the scheduler, its interval with it, as it was.
C27_ErrorStatus ==
    /\ []((Returned /\ last.reason = "") =>
             /\ status = (IF DroppedAtCeiling THEN "error" ELSE "idle")
             /\ last.res[1].success <=> (last.res[1].errors = <<>>))
    /\ [][(\E c \in CycleSlots : Ended(c)) => sched' = sched]_vars

\* C27 witness: the interval has fired after a cycle that dropped the queued
\* item left the status error, and the new cycle is at its preflight.
C27_Witness ==
    /\ status = "error"
    /\ Queue = <<>>
    /\ sched.syncIntervalId
    /\ cyc["timer"].pc = "netinfo"

\* The persisted retry count of the queued item with this id.
RetryCountOf(queue, id) == queue[CHOOSE n \in 1..Len(queue) : queue[n].id = id].retryCount

\* C28: every queued item has a retry count from 0 to 4; addToSyncQueue
\* stores its item with retry count 0; the write that follows a failed
\* upload of an item that stays queued raises the item's persisted count by
\* exactly one; and no step lowers the count of an item that stays queued.
C28_RetryCount ==
    /\ [](\A n \in 1..Len(Queue) : Queue[n].retryCount \in 0..(MAX_RETRY_COUNT - 1))
    /\ [][/\ EnqueueWrite => \A id \in Ids(Queue') \ Ids(Queue) :
                                 RetryCountOf(Queue', id) = 0
          /\ \A id \in Ids(Queue) \cap Ids(Queue') :
                RetryCountOf(Queue', id) >= RetryCountOf(Queue, id)
          /\ \A c \in CycleSlots :
                LET id == cyc[c].snap[cyc[c].idx].id
                IN (cyc[c].pc = "updWrite" /\ cyc'[c] # cyc[c]
                      /\ id \in Ids(Queue) \cap Ids(Queue')) =>
                       RetryCountOf(Queue', id) = RetryCountOf(Queue, id) + 1
         ]_vars

\* The step is a successful setDoc / deleteDoc of cycle c.
Uploaded(c) == cyc[c].pc = "upload" /\ cyc'[c].pc = "rmRead" /\ cyc'[c].itemOk

\* The remote path the specification gives for an item of the user.
SpecifiedPath(uid, item) ==
    <<"users", uid, item.collection,
      IF item.collection = "preferences" THEN "settings" ELSE item.documentId>>

\* Every remote document but the one at path is as it was.
OthersUntouched(path) ==
    /\ DOMAIN remote' \ {path} = DOMAIN remote \ {path}
    /\ \A p \in DOMAIN remote \ {path} : remote'[p] = remote[p]

\* C29: a successful upsert leaves at users/{uid}/{collection}/{documentId},
\* for preferences at users/{uid}/preferences/settings whatever the
\* documentId, a document with the fields of the payload, _lastModified the
\* item's createdAt, _syncedAt the time of the upload and every other field
\* the document had before; a successful delete leaves no document at that
\* path; and no other document changes.
C29_UploadPath ==
    [][\A c \in CycleSlots :
          Uploaded(c) =>
             LET item == cyc[c].snap[cyc[c].idx]
                 path == SpecifiedPath(cyc[c].uid, item)
             IN /\ OthersUntouched(path)
                /\ IF item.action = "delete" THEN path \notin DOMAIN remote'
                   ELSE /\ path \in DOMAIN remote'
                        /\ Carries(remote'[path], item.data[1])
                        /\ remote'[path]._lastModified = item.createdAt
                        /\ remote'[path]._syncedAt = cyc[c].ts
                        /\ cyc[c].ts = now
                        /\ DOMAIN remote'[path] =
                              (DOMAIN item.data[1]) \cup {"_syncedAt", "_lastModified"}
                                 \cup (IF path \in DOMAIN remote
                                       THEN DOMAIN remote[path] ELSE {})
                        /\ path \in DOMAIN remote =>
                              \A f \in (DOMAIN remote[path]) \
                                       ((DOMAIN item.data[1])
                                           \cup {"_syncedAt", "_lastModified"}) :
                                  remote'[path][f] = remote[path][f]
      ]_vars

\* C29 witness: the queued upsert of template t1 and an upsert of the
\* preferences, enqueued with the user id as documentId, have been uploaded:
\* the template document has the payload's name, the notes it had before and
\* the item's createdAt, and the preferences are at preferences/settings.
C29_Witness ==
    /\ <<"users", "u1", "preferences", "settings">> \in DOMAIN remote
    /\ <<"users", "u1", "preferences", "u1">> \notin DOMAIN remote
    /\ <<"users", "u1", "templates", "t1">> \in DOMAIN remote
    /\ LET doc == remote[<<"users", "u1", "templates", "t1">>]
       IN /\ doc.name = "A"
          /\ doc.notes = "n"
          /\ doc._lastModified = 1
          /\ doc._syncedAt = 2

\* The template of QueuedStore, saved locally before any cycle ran, has been
\* uploaded; the last queue item enqueued for it since is the delete of
\* deleteTemplate, and no Data Service call is in flight: the template has
\* not been saved again.
DeletedLocally ==
    /\ RemoteHolds(QueuedStore["syncQueue"][1][1])
    /\ newest # Null
    /\ newest[1].action = "delete"
    /\ ds.pc = "idle"

\* C30: a template that was uploaded and then removed by deleteTemplate is
\* not in the local template list again, whatever a later or concurrent
\* download phase did since, unless saveTemplate saved it again.
C30_StaysDeleted ==
    DeletedLocally => newest[1].documentId \notin Ids(Templates)

\* clearUserData, the one Data Service call of SpecClear, has been made (the
\* clock has advanced) and has returned; AsyncStorage does not fail there,
\* so clearAllData returned true.
Cleared == now > 1 /\ ds.pc = "idle" /\ storageOk

\* Every record of the local list is the remote document of its id without
\* the stamps: it can have come from a download.
FromRemote(list, coll) ==
    \A n \in 1..Len(list) :
        \E p \in DOMAIN remote :
            p[3] = coll /\ p[4] = list[n].id /\ stripMeta(remote[p]) = list[n]

\* C31: once clearUserData has returned and the cycle that was in flight
\* during it has finished, the sync queue is empty, the last-sync timestamp
\* reads 0 (or a time taken after the clear: the clock stands at the time of
\* the call), and the session history and the template list hold no record
\* other than documents downloaded from the remote store.
C31_NothingLeft ==
    (Cleared /\ Quiet) =>
        /\ Queue = <<>>
        /\ LastSync \in {0, now}
        /\ FromRemote(Sessions, "sessions")
        /\ FromRemote(Templates, "templates")

\* C32: an item is uploaded under the path of the user whose id was stored
\* locally when it was enqueued: the watched item, enqueued in QueuedStore
\* under the stored user id, and every preferences item, which
\* savePreferences enqueues with the stored user id as documentId, are
\* written under users/{that id} only.
C32_OwnPath ==
    [][\A c \in CycleSlots :
          Uploaded(c) =>
             LET item == cyc[c].snap[cyc[c].idx]
             IN /\ item.id = WatchedId => Some(cyc[c].uid) = QueuedStore["userId"]
                /\ item.collection = "preferences" => cyc[c].uid = item.documentId
      ]_vars

\* C33: every callback registered through subscribeToSyncStatus and not yet
\* unsubscribed is called exactly once with each status the engine sets,
\* and no other callback is called.
StatusSet ==
    \E c \in CycleSlots : cyc[c].pc \in {"netinfo", "tsWrite"} /\ cyc'[c].pc # cyc[c].pc

C33_FanOut ==
    [][StatusSet =>
          \A o \in Observers :
             obs'.delivered[o] = IF o \in obs.live THEN <<status'>> ELSE <<>>]_vars

\* C34: session history and the template list hold at most one record per
\* id, whatever calls and cycles have run.
OnePerId(list) == \A i, j \in 1..Len(list) : list[i].id = list[j].id => i = j

C34_OnePerId == OnePerId(Sessions) /\ OnePerId(Templates)

\* C35: at most one interval is set at any time, and when the last
\* outstanding cleanup function has been invoked no interval is set and no
\* app-state listener is registered.
LastCleanup == sched.cleanups > 0 /\ sched'.cleanups = 0

C35_Released ==
    /\ [](sched.timers <= 1)
    /\ [][LastCleanup =>
             /\ sched'.timers = 0
             /\ ~sched'.appStateSubscription
             /\ sched'.leaked = 0]_vars

\* C36: a cycle that is past preflight when the application is in the
\* background with the interval cleared runs on until performSync returns
\* from both phases, and when it returns the items it uploaded have left the
\* queue, the items it failed to upload are gone or carry a retry count one
\* higher, and the last-sync timestamp is the time of the cycle.
Backgrounded == sched.currentState = "background" /\ ~sched.syncIntervalId

PastPreflight(c) == cyc[c].pc \notin {"idle", "netinfo"}

Completed(c) == last.op = "performSync" /\ last.who = c /\ last.reason = ""

Applied ==
    /\ LastSync = now
    /\ \A i \in 1..Len(last.snap) :
          LET item == last.snap[i]
          IN IF last.outcomes[i] \/ item.retryCount + 1 >= MAX_RETRY_COUNT
             THEN item.id \notin Ids(Queue)
             ELSE \E n \in 1..Len(Queue) :
                     /\ Queue[n].id = item.id
                     /\ Queue[n].retryCount = item.retryCount + 1

C36_RunsOn ==
    /\ [][\A c \in CycleSlots :
             (PastPreflight(c) /\ ~Backgrounded /\ Backgrounded') => cyc'[c] = cyc[c]]_vars
    /\ \A c \in CycleSlots : (PastPreflight(c) /\ Backgrounded) ~> Completed(c)
    /\ [](\A c \in CycleSlots : (Completed(c) /\ Backgrounded) => Applied)

C36_Witness ==
    /\ Completed("timer")
    /\ Backgrounded
    /\ Len(last.snap) > 0
    /\ last.outcomes[1]

\* C37: every write to the preferences, templates or session-history slot
\* stores a wrapper whose lastModified is the Date.now() the writing handler
\* took when it built the wrapper, which is the clock of the step or of the
\* step before; and the syncedAt of a stored wrapper is null (nothing in the
\* code sets it).
WrappedSlots == {"preferences", "templates", "sessions"}

\* Date.now() as the handler in flight took it for its write.
WriteTime == IF ds.pc # "idle" THEN ds.ts ELSE cyc["timer"].ts

C37_Wrapper ==
    /\ [][\A k \in WrappedSlots :
             (store'[k] # store[k] /\ store'[k] # Null) =>
                 /\ DOMAIN store'[k][1] = {"data", "lastModified", "syncedAt"}
                 /\ store'[k][1].lastModified = WriteTime
                 /\ store'[k][1].lastModified \in {now' - 1, now'}]_vars
    /\ [](\A k \in WrappedSlots : store[k] # Null => store[k][1].syncedAt = Null)

C37_Witness ==
    /\ store["templates"] # Null
    /\ store["templates"][1].lastModified > 1
    /\ store["sessions"] # Null

\* C38: a token exchange that does not end in a 200 response carrying a
\* token makes signInToFirebase throw and leaves auth.currentUser as it was;
\* so does a rejected signInWithCustomToken; and while the last sign-in has
\* failed and there is no current user, every performSync that returns was
\* skipped: zero counts and no errors, no remote call, the queue and the
\* last-sync slot untouched, and a status that is not error.
Granted(resp) == resp # Null /\ resp[1].status = 200 /\ resp[1].firebaseToken # Null

C38_NoCredential ==
    /\ [][(signIn.pc = "fetch" /\ signIn'.pc # "fetch") => authUser' = authUser]_vars
    /\ [][(signIn.pc \in {"fetch", "body"} /\ signIn'.pc \notin {"fetch", "body"}
             /\ ~Granted(signIn'.resp)) =>
             /\ signIn'.pc = "idle"
             /\ signIn'.failed
             /\ authUser' = authUser]_vars
    /\ [][(~signIn.failed /\ signIn'.failed) => authUser' = authUser]_vars
    /\ []((Returned /\ signIn.failed /\ authUser = Null) =>
             /\ last.reason # ""
             /\ last.res = Some(ZeroSuccess)
             /\ last.calls = 0
             /\ SlotsUntouched
             /\ status # "error")

C38_Witness ==
    /\ Returned
    /\ signIn.failed
    /\ signIn.resp # Null
    /\ signIn.resp[1].status = 500
    /\ configured
    /\ last.probe # Null
    /\ last.probe[1].isConnected
    /\ last.queue0 # Null
    /\ Len(last.queue0[1]) > 0

\* C39: startSession, updateCurrentSession and discardCurrentSession change
\* no slot but the current-session slot; savePreferences changes the queue
\* only by appending one preferences item whose documentId is the stored
\* user id, and leaves the queue as it was when no user id is stored (none,
\* or the empty string); and the read operations change no slot.
SessionOps == {"startSession", "updateCurrentSession", "discardCurrentSession"}

DsActs == ds' # ds

C39_Frame ==
    /\ [][(DsActs /\ (ds.op \in SessionOps \/ ds'.op \in SessionOps)) =>
             \A k \in STORAGE_KEYS \ {"currentSession"} : store'[k] = store[k]]_vars
    /\ [][(DsActs /\ ds.op = "savePreferences"
             /\ store'["syncQueue"] # store["syncQueue"]) =>
             /\ getUserId(store, TRUE) \notin {Null, Some("")}
             /\ Len(Queue') = Len(Queue) + 1
             /\ \A n \in 1..Len(Queue) : Queue'[n] = Queue[n]
             /\ Queue'[Len(Queue')].collection = "preferences"
             /\ Queue'[Len(Queue')].documentId = getUserId(store, TRUE)[1]]_vars
    /\ []((last.op = "savePreferences" /\ getUserId(store, TRUE) \in {Null, Some("")}) =>
             store["syncQueue"] = last.queue0)
    /\ [][last'.op \in ReadOps => store' = store]_vars

C39_Witness ==
    /\ last.op = "startSession"
    /\ store["currentSession"] # last.slot0
    /\ store["syncQueue"] # Null
    /\ store["sessions"] # Null

====
